---- MODULE Spec2Model ----
(***************************************************************************)
(* Payroll report automation: the text-to-record parser (PDFParser) and    *)
(* the correction rule engine (RuleEngine), modelled as state machines.    *)
(* Strings are real strings: the JavaScript string methods the code uses   *)
(* (toUpperCase, includes, startsWith, endsWith, trim, split, regular      *)
(* expressions) are computed character by character.                       *)
(***************************************************************************)
EXTENDS Integers, Sequences, FiniteSets, TLC

VARIABLES
    \* ---- RuleEngine.applyRules (one call in progress) ----
    employeeData,     \* the argument of applyRules
    entryIdx,         \* position of the for..of loop in employeeData
    rulePc,           \* next step of the loop body, "done" after return
    correctedEntry,   \* the copy { ...entry } the rules rewrite
    entryChanges,     \* changes of the current entry
    correctedData,    \* result list of corrected entries
    changes,          \* result change log
    run,              \* 1: first call, 2: call on the first call's result
    firstInput,       \* argument of the first call
    entryRef,         \* what correctedEntry refers to: "fresh" object or "input" entry
    issues,           \* per entry of the first call: the result of validateEntry
    summary,          \* the result of getSummary on the log of the first call
    \* ---- PDFParser.parseEmployeeData (one call in progress) ----
    lines,            \* text.split('\n')
    lineInfo,         \* per line: the results of the tests the loop body applies
    i,                \* loop index, 1-based (source index + 1)
    parsePc,          \* "idle", "scan", "done"
    currentEmployee,  \* NoEmployee or [name, id]
    employeeEntries,  \* buffer of the current employee
    allEntries,       \* output list
    payPeriodId,      \* "" stands for null (no id read yet)
    reportDate,       \* "" stands for null (no date read yet)
    stopped,          \* TRUE when the loop was left by break
    headerLine,       \* history: line index of the header of currentEmployee
    accepted,         \* history: every entry pushed to employeeEntries
    bufSrc,           \* history: [line, header] of each buffered entry
    outSrc,           \* history: [line, header] of each output entry
    \* ---- router.post('/process') (requests in progress) ----
    req,              \* per request: position in the handler, file, results
    active            \* the request whose synchronous code is running, 0 if none

ruleVars  == <<employeeData, entryIdx, rulePc, correctedEntry, entryChanges,
               correctedData, changes, run, firstInput, entryRef, issues,
               summary>>
parseVars == <<lines, lineInfo, i, parsePc, currentEmployee, employeeEntries,
               allEntries, payPeriodId, reportDate, stopped, headerLine,
               accepted, bufSrc, outSrc>>
pipeVars  == <<req, active>>
vars      == <<ruleVars, parseVars, pipeVars>>

\* null values of the code
NoEntry    == [none |-> TRUE]
NoEmployee == [none |-> TRUE]
\* a pattern that did not match
NoMatch    == [matched |-> FALSE]

-----------------------------------------------------------------------------
(* JavaScript string primitives *)

Char(s, k) == SubSeq(s, k, k)

LowerLetters == "abcdefghijklmnopqrstuvwxyz"
UpperLetters == "ABCDEFGHIJKLMNOPQRSTUVWXYZ"
DigitChars   == "0123456789"

CharsOf(s) == { Char(s, k) : k \in 1..Len(s) }

LowerSet == CharsOf(LowerLetters)
UpperSet == CharsOf(UpperLetters)
DigitSet == CharsOf(DigitChars)
SpaceSet == {" "}
\* \w of a JavaScript regular expression
WordSet  == LowerSet \cup UpperSet \cup DigitSet \cup {"_"}

IndexIn(alphabet, c) == CHOOSE k \in 1..Len(alphabet) : Char(alphabet, k) = c

UpperOf == [c \in LowerSet |-> Char(UpperLetters, IndexIn(LowerLetters, c))]
LowerOf == [c \in UpperSet |-> Char(LowerLetters, IndexIn(UpperLetters, c))]
DigitOf == [c \in DigitSet |-> IndexIn(DigitChars, c) - 1]

RECURSIVE toUpperCase(_)
toUpperCase(s) ==
    IF s = "" THEN ""
    ELSE (IF Char(s, 1) \in LowerSet THEN UpperOf[Char(s, 1)] ELSE Char(s, 1))
         \o toUpperCase(SubSeq(s, 2, Len(s)))

RECURSIVE toLowerCase(_)
toLowerCase(s) ==
    IF s = "" THEN ""
    ELSE (IF Char(s, 1) \in UpperSet THEN LowerOf[Char(s, 1)] ELSE Char(s, 1))
         \o toLowerCase(SubSeq(s, 2, Len(s)))

startsWith(s, p) == Len(s) >= Len(p) /\ SubSeq(s, 1, Len(p)) = p
endsWith(s, p)   == Len(s) >= Len(p) /\ SubSeq(s, Len(s) - Len(p) + 1, Len(s)) = p
includes(s, p)   == \E k \in 1..(Len(s) - Len(p) + 1) : SubSeq(s, k, k + Len(p) - 1) = p
\* String.prototype.indexOf, 1-based; 0 when absent
indexOf(s, p) ==
    IF includes(s, p)
    THEN CHOOSE k \in 1..(Len(s) - Len(p) + 1) :
            /\ SubSeq(s, k, k + Len(p) - 1) = p
            /\ \A m \in 1..(k - 1) : SubSeq(s, m, m + Len(p) - 1) # p
    ELSE 0

\* first position >= k whose character is not in cls (Len(s)+1 when none)
RECURSIVE SpanEnd(_, _, _)
SpanEnd(s, k, cls) ==
    IF k <= Len(s) /\ Char(s, k) \in cls THEN SpanEnd(s, k + 1, cls) ELSE k

\* last position <= k whose character is not in cls (0 when none)
RECURSIVE SpanStart(_, _, _)
SpanStart(s, k, cls) ==
    IF k >= 1 /\ Char(s, k) \in cls THEN SpanStart(s, k - 1, cls) ELSE k

AllIn(s, a, b, cls) == \A k \in a..b : Char(s, k) \in cls

trim(s) == SubSeq(s, SpanEnd(s, 1, SpaceSet), SpanStart(s, Len(s), SpaceSet))

\* String.prototype.split with a non-empty separator
RECURSIVE split(_, _)
split(s, sep) ==
    LET k == indexOf(s, sep)
    IN  IF k = 0 THEN <<s>>
        ELSE <<SubSeq(s, 1, k - 1)>> \o split(SubSeq(s, k + Len(sep), Len(s)), sep)

\* Array.prototype.join
RECURSIVE join(_, _)
join(list, sep) ==
    IF Len(list) = 0 THEN ""
    ELSE IF Len(list) = 1 THEN list[1]
    ELSE list[1] \o sep \o join(Tail(list), sep)

\* value of a string of decimal digits
RECURSIVE DigitsValue(_)
DigitsValue(s) ==
    IF s = "" THEN 0
    ELSE DigitsValue(SubSeq(s, 1, Len(s) - 1)) * 10 + DigitOf[Char(s, Len(s))]

SeqToSet(list) == { list[k] : k \in 1..Len(list) }


-----------------------------------------------------------------------------
(* moment(entry.date, 'MM/DD/YYYY') and moment#day() *)

DaysInMonth(y, m) ==
    IF m = 2
    THEN (IF (y % 4 = 0 /\ y % 100 # 0) \/ y % 400 = 0 THEN 29 ELSE 28)
    ELSE IF m \in {4, 6, 9, 11} THEN 30 ELSE 31

\* Non-strict parse of MM/DD/YYYY: one or two digits, a separator, one or two
\* digits, a separator, four digits.  Invalid when the text has no such shape
\* or the month or day overflows.
momentParse(date) ==
    LET a == SpanEnd(date, 1, DigitSet)
        b == SpanEnd(date, a + 1, DigitSet)
        c == SpanEnd(date, b + 1, DigitSet)
        shaped == /\ a \in 2..3
                  /\ a <= Len(date) /\ Char(date, a) = "/"
                  /\ b - (a + 1) \in 1..2
                  /\ b <= Len(date) /\ Char(date, b) = "/"
                  /\ c - (b + 1) = 4
        mm == DigitsValue(SubSeq(date, 1, a - 1))
        dd == DigitsValue(SubSeq(date, a + 1, b - 1))
        yy == DigitsValue(SubSeq(date, b + 1, c - 1))
    IN  IF shaped /\ mm \in 1..12 /\ dd >= 1 /\ dd <= DaysInMonth(yy, mm)
        THEN [valid |-> TRUE, year |-> yy, month |-> mm, day |-> dd]
        ELSE [valid |-> FALSE, year |-> 0, month |-> 0, day |-> 0]

MonthOffset == <<0, 3, 2, 5, 0, 3, 5, 1, 4, 6, 2, 4>>

\* moment#day(): 0 is Sunday
momentDay(m) ==
    LET y == IF m.month < 3 THEN m.year - 1 ELSE m.year
    IN  (y + (y \div 4) - (y \div 100) + (y \div 400)
           + MonthOffset[m.month] + m.day) % 7

\* a date moment cannot read counts as a Sunday
isSunday_OrInvalid(date) ==
    LET m == momentParse(date) IN ~m.valid \/ momentDay(m) = 0

isSunday(date) ==
    LET m == momentParse(date) IN m.valid /\ momentDay(m) = 0

-----------------------------------------------------------------------------
(* RuleEngine: configuration tables of the constructor *)

\* the allow-list without the overtime, helper and shop rates
SERVICE_INSTALL_LABOR_RATES_Base ==
    << "Tech", "TechNB", "MNTech", "SCH_MNTECH", "SCH_TECH",
       "SCHTECHNB", "WN MN TECH", "WN TECH", "WN TECHNB" >>

SERVICE_INSTALL_LABOR_RATES ==
    << "Tech", "TechNB", "MNTech", "MN TECH", "SCH_MNTECH", "SCH_TECH",
       "SCHTECHNB", "WN MN TECH", "WN TECH", "WN TECHNB",
       "TechOT", "TECHOT", "MNTECHOT", "MN TECHOT", "SCH_TECHOT",
       "SCH_MNTECHOT", "WN TECHOT", "WN MN TECHOT", "WN MNTECHOT",
       "HELPER", "MN HELPER", "SCH_HELPER", "WN HELPER",
       "HELPEROT", "MN HELPEROT", "SCH_HELPEROT", "WN HELPEROT",
       "HELPOT", "MN HELPOT", "SCH_HELPOT", "WN HELPOT",
       "SHOP", "SCH_SHOP", "WN SHOP" >>

PM_LABOR_RATES ==
    << "MN PMTECH", "PMTECH", "TechNB", "Sch MN PM Tech",
       "SCH_MN PMTECH", "SCH_PMTECH", "WN MN PM TECH", "WN PM TECH",
       "WN PMTECH", "PM TECH LABOR" >>

OFFICE_COST_CODES == << "1COAD", "1SCHOF", "1WNOF" >>

PM_COST_CODES == << "PM", "PMF", "FTPM" >>

\* Array.prototype.includes
listIncludes(list, v) == \E k \in 1..Len(list) : list[k] = v

\* a change record with the original and the corrected value exchanged
Change_Swapped(entry, field, orig, corr, rule, descr) ==
    [ employeeName   |-> entry.employeeName,
      employeeId     |-> entry.employeeId,
      date           |-> entry.date,
      field          |-> field,
      originalValue  |-> corr,
      correctedValue |-> orig,
      rule           |-> rule,
      description    |-> descr ]

\* the change record every rule pushes
Change(entry, field, orig, corr, rule, descr) ==
    [ employeeName   |-> entry.employeeName,
      employeeId     |-> entry.employeeId,
      date           |-> entry.date,
      field          |-> field,
      originalValue  |-> orig,
      correctedValue |-> corr,
      rule           |-> rule,
      description    |-> descr ]

\* A rule takes and returns the pair (entry, changes) it works on.
RuleState(entry, chgs) == [entry |-> entry, changes |-> chgs]

-----------------------------------------------------------------------------
(* RuleEngine: the seven rules *)

\* Rule 1 without the assignment entry.payType = 'Unapplied'
applyRule1_TechUnapplied_NoAssign(st) ==
    LET entry == st.entry IN
    IF entry.costCategory = "TechUnapplyd" /\ entry.payType # "Unapplied"
    THEN RuleState(
           entry,
           Append(st.changes,
                  Change(entry, "payType", entry.payType, "Unapplied",
                         "Rule 1: TechUnapplied -> Unapplied Pay Type",
                         "Cost Category is TechUnapplyd, so Pay Type must be Unapplied")))
    ELSE st

applyRule1_TechUnapplied(st) ==
    LET entry == st.entry IN
    IF entry.costCategory = "TechUnapplyd" /\ entry.payType # "Unapplied"
    THEN RuleState(
           [entry EXCEPT !.payType = "Unapplied"],
           Append(st.changes,
                  Change(entry, "payType", entry.payType, "Unapplied",
                         "Rule 1: TechUnapplied -> Unapplied Pay Type",
                         "Cost Category is TechUnapplyd, so Pay Type must be Unapplied")))
    ELSE st

\* Rule 2 without the allow-list test: every Service/Install entry is set to
\* Tech and logged
applyRule2_ServiceInstallRates_Unguarded(st) ==
    LET entry    == st.entry
        costCode == toUpperCase(entry.costCode)
    IN
    IF (costCode = "SERVICE" \/ costCode = "INSTALL")
    THEN RuleState(
           [entry EXCEPT !.laborRate = "Tech"],
           Append(st.changes,
                  Change(entry, "laborRate", entry.laborRate, "Tech",
                         "Rule 2: Service/Install Labor Rate Validation",
                         "Cost Code is " \o costCode \o ", Labor Rate must be one of: "
                            \o join(SERVICE_INSTALL_LABOR_RATES, ", "))))
    ELSE st

applyRule2_ServiceInstallRates(st) ==
    LET entry    == st.entry
        costCode == toUpperCase(entry.costCode)
    IN
    IF (costCode = "SERVICE" \/ costCode = "INSTALL")
       /\ ~listIncludes(SERVICE_INSTALL_LABOR_RATES, entry.laborRate)
    THEN RuleState(
           [entry EXCEPT !.laborRate = "Tech"],
           Append(st.changes,
                  Change(entry, "laborRate", entry.laborRate, "Tech",
                         "Rule 2: Service/Install Labor Rate Validation",
                         "Cost Code is " \o costCode \o ", Labor Rate must be one of: "
                            \o join(SERVICE_INSTALL_LABOR_RATES, ", "))))
    ELSE st

\* Rule 3 without the allow-list test: every PM entry is set to PMTECH and logged
applyRule3_PMRates_Unguarded(st) ==
    LET entry    == st.entry
        costCode == toUpperCase(entry.costCode)
    IN
    IF listIncludes(PM_COST_CODES, costCode)
    THEN RuleState(
           [entry EXCEPT !.laborRate = "PMTECH"],
           Append(st.changes,
                  Change(entry, "laborRate", entry.laborRate, "PMTECH",
                         "Rule 3: PM Labor Rate Validation",
                         "Cost Code is " \o costCode \o ", Labor Rate must be one of: "
                            \o join(PM_LABOR_RATES, ", "))))
    ELSE st

applyRule3_PMRates(st) ==
    LET entry    == st.entry
        costCode == toUpperCase(entry.costCode)
    IN
    IF listIncludes(PM_COST_CODES, costCode)
       /\ ~listIncludes(PM_LABOR_RATES, entry.laborRate)
    THEN RuleState(
           [entry EXCEPT !.laborRate = "PMTECH"],
           Append(st.changes,
                  Change(entry, "laborRate", entry.laborRate, "PMTECH",
                         "Rule 3: PM Labor Rate Validation",
                         "Cost Code is " \o costCode \o ", Labor Rate must be one of: "
                            \o join(PM_LABOR_RATES, ", "))))
    ELSE st

\* Rule 4 without the geographic prefixes: always plain PREM
premRate_Plain(laborRate) == "PREM"

\* the PREM variant Rule 4 chooses for the current rate
premRate(laborRate) ==
    LET currentRate == toUpperCase(laborRate) IN
    IF startsWith(currentRate, "WN ") THEN "WN PREM"
    ELSE IF startsWith(currentRate, "SCH_") \/ startsWith(currentRate, "SCH ")
         THEN "SCH PREM"
    ELSE IF startsWith(currentRate, "MN ") \/ startsWith(currentRate, "MNTECH")
         THEN "MN PREM"
    ELSE "PREM"

applyRule4_SundayPremium(st) ==
    IF isSunday(st.entry.date)
    THEN LET e0 == st.entry
             \* pay type to Double Time
             st1 == IF e0.payType # "Double Time"
                    THEN RuleState(
                           [e0 EXCEPT !.payType = "Double Time"],
                           Append(st.changes,
                                  Change(e0, "payType", e0.payType, "Double Time",
                                         "Rule 4: Sunday Premium Pay",
                                         "Work on Sunday requires Double Time pay type")))
                    ELSE st
             e1  == st1.entry
         IN  \* labor rate to PREM, keeping the geographic prefix
             IF e1.laborRate = "" \/ ~includes(toUpperCase(e1.laborRate), "PREM")
             THEN RuleState(
                    [e1 EXCEPT !.laborRate = premRate(e1.laborRate)],
                    Append(st1.changes,
                           Change(e1, "laborRate", e1.laborRate, premRate(e1.laborRate),
                                  "Rule 4: Sunday Premium Rate",
                                  "Work on Sunday requires PREM labor rate")))
             ELSE st1
    ELSE st

\* Rule 5 without the geographic prefixes: always TechOT
callRate_Plain(laborRate) == "TechOT"

\* the overtime variant Rule 5 chooses for the current rate
callRate(laborRate) ==
    LET currentRate == toUpperCase(laborRate) IN
    IF startsWith(currentRate, "WN MN ") THEN "WN MN TECHOT"
    ELSE IF startsWith(currentRate, "WN ") THEN "WN TECHOT"
    ELSE IF startsWith(currentRate, "SCH_MN") THEN "SCH_MNTECHOT"
    ELSE IF startsWith(currentRate, "SCH_") \/ startsWith(currentRate, "SCH ")
         THEN "SCH_TECHOT"
    ELSE IF startsWith(currentRate, "MN ") \/ currentRate = "MNTECH"
         THEN "MN TECHOT"
    ELSE IF currentRate = "TECH" THEN "TechOT"
    ELSE IF includes(currentRate, "HELPER")
         THEN (IF startsWith(currentRate, "WN ") THEN "WN HELPEROT"
               ELSE IF startsWith(currentRate, "SCH") THEN "SCH_HELPEROT"
               ELSE IF startsWith(currentRate, "MN ") THEN "MN HELPEROT"
               ELSE "HELPEROT")
    ELSE "TechOT"

applyRule5_CallWork(st) ==
    LET entry == st.entry IN
    IF entry.payType = "Call"
    THEN IF includes(toUpperCase(entry.laborRate), "OT")
         THEN st
         ELSE IF entry.laborRate # callRate(entry.laborRate)
              THEN RuleState(
                     [entry EXCEPT !.laborRate = callRate(entry.laborRate)],
                     Append(st.changes,
                            Change(entry, "laborRate", entry.laborRate,
                                   callRate(entry.laborRate),
                                   "Rule 5: Call Work Labor Rate",
                                   "Call pay type requires overtime labor rate")))
              ELSE st
    ELSE st

\* Rule 6 by plain suffixing instead of the explicit mapping
noBillRate_Suffix(currentRate) == currentRate \o "NB"

\* the NB variant Rule 6 chooses; the rate itself when it has no mapping
noBillRate(currentRate) ==
    LET up == toUpperCase(currentRate) IN
    IF startsWith(up, "WN ")
    THEN (IF up = "WN TECH" THEN "WN TECHNB"
          ELSE IF up = "WN MN TECH" THEN "WN MN TECHNB"
          ELSE IF up = "WN PM TECH" THEN "WN PM TECHNB"
          ELSE currentRate)
    ELSE IF startsWith(up, "SCH")
    THEN (IF up = "SCH_TECH" THEN "SCHTECHNB"
          ELSE IF up = "SCH_MNTECH" THEN "SCH_MNTECHNB"
          ELSE IF up = "SCH_PMTECH" THEN "SCH_PMTECHNB"
          ELSE currentRate)
    ELSE IF up = "TECH" THEN "TechNB"
    ELSE IF up = "MNTECH" THEN "MNTechNB"
    ELSE IF up = "PMTECH" THEN "PMTECHNB"
    ELSE IF up = "MN PMTECH" THEN "MN PMTECHNB"
    ELSE currentRate

\* Rule 6 that also marks the cost category of the entry
applyRule6_NoBillDetection_Tagging(st) ==
    LET entry == st.entry IN
    IF entry.description # "" /\ includes(toLowerCase(entry.description), "no bill")
    THEN LET currentRate == entry.laborRate IN
         IF currentRate = "" \/ endsWith(toUpperCase(currentRate), "NB")
         THEN st
         ELSE IF noBillRate(currentRate) # currentRate
              THEN RuleState(
                     [entry EXCEPT !.laborRate = noBillRate(currentRate),
                                   !.costCategory = "NoBill"],
                     Append(st.changes,
                            Change(entry, "laborRate", currentRate,
                                   noBillRate(currentRate),
                                   "Rule 6: No Bill Detection",
                                   "Description contains No Bill - adding NB suffix to labor rate")))
              ELSE st
    ELSE st

applyRule6_NoBillDetection(st) ==
    LET entry == st.entry IN
    IF entry.description # "" /\ includes(toLowerCase(entry.description), "no bill")
    THEN LET currentRate == entry.laborRate IN
         IF currentRate = "" \/ endsWith(toUpperCase(currentRate), "NB")
         THEN st
         ELSE IF noBillRate(currentRate) # currentRate
              THEN RuleState(
                     [entry EXCEPT !.laborRate = noBillRate(currentRate)],
                     Append(st.changes,
                            Change(entry, "laborRate", currentRate,
                                   noBillRate(currentRate),
                                   "Rule 6: No Bill Detection",
                                   "Description contains No Bill - adding NB suffix to labor rate")))
              ELSE st
    ELSE st

\* Rule 7 without the push of the change record
applyRule7_OfficeOverride_NoLog(st) ==
    LET entry    == st.entry
        costCode == toUpperCase(entry.costCode)
    IN
    IF listIncludes(OFFICE_COST_CODES, costCode) /\ entry.payType # "Regular"
    THEN RuleState([entry EXCEPT !.payType = "Regular"], st.changes)
    ELSE st

applyRule7_OfficeOverride(st) ==
    LET entry    == st.entry
        costCode == toUpperCase(entry.costCode)
    IN
    IF listIncludes(OFFICE_COST_CODES, costCode) /\ entry.payType # "Regular"
    THEN RuleState(
           [entry EXCEPT !.payType = "Regular"],
           Append(st.changes,
                  Change(entry, "payType", entry.payType, "Regular",
                         "Rule 7: Office Override",
                         "Office cost code " \o costCode \o " requires Regular pay type")))
    ELSE st

-----------------------------------------------------------------------------
(* RuleEngine.validateEntry *)

\* issues.push(text) when the condition holds
issueIf(cond, text) == IF cond THEN <<text>> ELSE <<>>

validateEntry(entry) ==
    LET costCode    == toUpperCase(entry.costCode)
        currentRate == toUpperCase(entry.laborRate)
    IN  issueIf(entry.costCategory = "TechUnapplyd" /\ entry.payType # "Unapplied",
                "Cost Category is TechUnapplyd but Pay Type is not Unapplied")
        \o issueIf((costCode = "SERVICE" \/ costCode = "INSTALL")
                      /\ ~listIncludes(SERVICE_INSTALL_LABOR_RATES, entry.laborRate),
                    "Service/Install work requires approved labor rate, got: "
                       \o entry.laborRate)
        \o issueIf(listIncludes(PM_COST_CODES, costCode)
                      /\ ~listIncludes(PM_LABOR_RATES, entry.laborRate),
                    "PM work requires approved labor rate, got: " \o entry.laborRate)
        \o issueIf(isSunday(entry.date) /\ entry.payType # "Double Time",
                    "Sunday work requires Double Time pay type")
        \o issueIf(isSunday(entry.date) /\ ~includes(currentRate, "PREM"),
                    "Sunday work requires PREM labor rate")
        \o issueIf(entry.payType = "Call" /\ ~includes(currentRate, "OT"),
                    "Call work requires overtime labor rate")
        \o issueIf(entry.description # ""
                      /\ includes(toLowerCase(entry.description), "no bill")
                      /\ entry.laborRate # "" /\ ~endsWith(currentRate, "NB"),
                    "Description contains \"No Bill\" but labor rate lacks NB suffix")
        \o issueIf(listIncludes(OFFICE_COST_CODES, costCode) /\ entry.payType # "Regular",
                    "Office cost code " \o costCode \o " requires Regular pay type")

-----------------------------------------------------------------------------
(* RuleEngine.getSummary *)

\* no summary has been computed
NoSummary == [none |-> TRUE]

\* m[key] = 1 whatever it was: the count is not carried on
countInto_Reset(m, key) == IF key \in DOMAIN m THEN [m EXCEPT ![key] = 1]
                           ELSE m @@ (key :> 1)

\* if (!m[key]) { m[key] = 0; } m[key]++;
countInto(m, key) == IF key \in DOMAIN m /\ m[key] # 0 THEN [m EXCEPT ![key] = @ + 1]
                     ELSE [k \in DOMAIN m \cup {key} |-> IF k = key THEN 1 ELSE m[k]]

\* changes.forEach(change => { ... }) on the first n changes
RECURSIVE summaryOfFirst(_, _)
summaryOfFirst(log, n) ==
    IF n = 0
    THEN [ totalChanges      |-> Len(log),
           changesByRule     |-> <<>>,
           changesByEmployee |-> <<>>,
           changesByField    |-> <<>> ]
    ELSE LET before == summaryOfFirst(log, n - 1)
             change == log[n]
         IN  [ totalChanges      |-> before.totalChanges,
               changesByRule     |-> countInto(before.changesByRule, change.rule),
               changesByEmployee |-> countInto(before.changesByEmployee,
                                               change.employeeName),
               changesByField    |-> countInto(before.changesByField, change.field) ]

getSummary(log) == summaryOfFirst(log, Len(log))

-----------------------------------------------------------------------------
(* RuleEngine.applyRules: inputs *)

\* longest input list of applyRules
MaxEntries == 2

CostCodes      == {"SERVICE", "install", "PM", "1COAD", "1wnof", "SHMTL"}
CostCategories == {"TechUnapplyd", "DirLab"}
PayTypes       == {"Regular", "Overtime", "Double Time", "Call", "Unapplied"}
LaborRates     == {"Tech", "TECH", "WN TECH", "SCH_TECH", "MNTech", "MN TECH",
                   "WN MN TECH", "SCH_MNTECH", "PMTECH", "MN PMTECH",
                   "WN PM TECH", "HELPER", "WN HELPER", "SCH_HELPER",
                   "MN HELPER", "TechOT", "WN TECHOT", "SCH_TECHOT", "TechNB",
                   "PREM", "WN PREM", "SCH_PREM", "SHOP", "Labor", "",
                   "SCHHELPER"}
Descriptions   == {"", "Technician Regular", "No Bill - warranty"}
\* a Sunday, a Monday, and a text moment cannot read as a date
Dates          == {"08/03/2025", "11/04/2024", "13/45/2025"}
SundayDates    == {"08/03/2025"}

TimeEntry(name, id, date, payType, laborRate, costCode, costCategory, descr) ==
    [ employeeName |-> name, employeeId |-> id, date |-> date, hours |-> 800,
      payType |-> payType, laborRate |-> laborRate, costCode |-> costCode,
      costCategory |-> costCategory, description |-> descr,
      jobCode |-> "CES1", jobDescription |-> "BAUER",
      payPeriodId |-> "2025-16", reportDate |-> "Mon Aug 04, 2025" ]

\* every combination of the fields the rules read
EntrySpace ==
    { TimeEntry("Test Worker", "99", d, pt, lr, cc, cat, ds) :
        d \in Dates, pt \in PayTypes, lr \in LaborRates, cc \in CostCodes,
        cat \in CostCategories, ds \in Descriptions }

\* entries of the rule test data, used for lists of more than one entry
BatchPool ==
    { TimeEntry("Stephen Peters", "45", "11/01/2024", "Call", "TechOT",
                "SERVICE", "Tech", "Emergency service call"),
      TimeEntry("Test Worker", "99", "11/03/2024", "Regular", "WN TECH",
                "SERVICE", "Tech", "Sunday work"),
      TimeEntry("Another Worker", "100", "11/04/2024", "Call", "SCH_TECH",
                "SERVICE", "Tech", "Call work"),
      TimeEntry("Office Worker", "7", "11/04/2024", "Overtime", "Tech",
                "1COAD", "TechUnapplyd", "No Bill") }

RECURSIVE ListsOf(_, _)
ListsOf(pool, n) ==
    IF n = 0 THEN { <<>> }
    ELSE { Append(l, e) : l \in ListsOf(pool, n - 1), e \in pool }

RuleInputs ==
    { <<e>> : e \in EntrySpace }
      \cup UNION { ListsOf(BatchPool, n) : n \in 2..MaxEntries }

-----------------------------------------------------------------------------
(* RuleEngine.applyRules: the call, one step per statement of the loop body *)

\* no request has been received
PipeIdle == req = <<>> /\ active = 0

ParserIdle ==
    /\ lines = <<>> /\ lineInfo = <<>> /\ i = 1 /\ parsePc = "idle"
    /\ currentEmployee = NoEmployee
    /\ employeeEntries = <<>> /\ allEntries = <<>>
    /\ payPeriodId = "" /\ reportDate = ""
    /\ stopped = FALSE /\ headerLine = 0 /\ accepted = <<>>
    /\ bufSrc = <<>> /\ outSrc = <<>>

InitRules ==
    /\ employeeData \in RuleInputs
    /\ firstInput = employeeData
    /\ run = 1
    /\ entryIdx = 0
    /\ rulePc = "loop"
    /\ correctedEntry = NoEntry
    /\ entryChanges = <<>>
    /\ correctedData = <<>>
    /\ changes = <<>>
    /\ entryRef = "fresh"
    /\ issues = <<>>
    /\ summary = NoSummary
    /\ ParserIdle
    /\ PipeIdle

\* const correctedEntry = entry: no copy, the rules work on the input entry
spreadCopy_Alias == "input"

\* { ...entry } makes a new object with the fields of entry
spreadCopy == "fresh"

\* for (const entry of employeeData) { const correctedEntry = { ...entry }; ...
BeginEntry ==
    /\ rulePc = "loop"
    /\ entryIdx < Len(employeeData)
    /\ entryIdx' = entryIdx + 1
    /\ correctedEntry' = employeeData[entryIdx + 1]
    /\ entryRef' = spreadCopy
    /\ entryChanges' = <<>>
    /\ rulePc' = "rule1"
    /\ UNCHANGED <<employeeData, correctedData, changes, run, firstInput, issues,
                   summary, parseVars, pipeVars>>

\* a rule assigns to the fields of the object correctedEntry refers to
RuleStep(from, to, st) ==
    /\ rulePc = from
    /\ correctedEntry' = st.entry
    /\ employeeData' = IF entryRef = "input"
                       THEN [employeeData EXCEPT ![entryIdx] = st.entry]
                       ELSE employeeData
    /\ entryChanges' = st.changes
    /\ rulePc' = to
    /\ UNCHANGED <<entryIdx, correctedData, changes, run, firstInput, entryRef,
                   issues, summary, parseVars, pipeVars>>

Current == RuleState(correctedEntry, entryChanges)

Rule1 == RuleStep("rule1", "rule2", applyRule1_TechUnapplied(Current))
Rule2 == RuleStep("rule2", "rule3", applyRule2_ServiceInstallRates(Current))
Rule3 == RuleStep("rule3", "rule4", applyRule3_PMRates(Current))
Rule4 == RuleStep("rule4", "rule5", applyRule4_SundayPremium(Current))
Rule5 == RuleStep("rule5", "rule6", applyRule5_CallWork(Current))
Rule6 == RuleStep("rule6", "rule7", applyRule6_NoBillDetection(Current))
Rule7 == RuleStep("rule7", "push", applyRule7_OfficeOverride(Current))

\* changes.unshift(...entryChanges): the changes of an entry go to the front
pushChanges_Unshift(log, entryLog) == entryLog \o log

\* changes.push(...entryChanges)
pushChanges(log, entryLog) == log \o entryLog

\* correctedData.push(correctedEntry); changes.push(...entryChanges);
PushEntry ==
    /\ rulePc = "push"
    /\ correctedData' = Append(correctedData, correctedEntry)
    /\ changes' = pushChanges(changes, entryChanges)
    /\ rulePc' = "loop"
    /\ UNCHANGED <<employeeData, entryIdx, correctedEntry, entryChanges, run,
                   firstInput, entryRef, issues, summary, parseVars, pipeVars>>

\* return { correctedData, changes };
ReturnRules ==
    /\ rulePc = "loop"
    /\ entryIdx = Len(employeeData)
    /\ rulePc' = "done"
    /\ UNCHANGED <<employeeData, entryIdx, correctedEntry, entryChanges,
                   correctedData, changes, run, firstInput, entryRef, issues,
                   summary, parseVars, pipeVars>>

\* validateEntry on each entry that was passed to the first call
Validate ==
    /\ rulePc = "done"
    /\ run = 1
    /\ issues' = [k \in 1..Len(employeeData) |-> validateEntry(employeeData[k])]
    /\ rulePc' = "validated"
    /\ UNCHANGED <<employeeData, entryIdx, correctedEntry, entryChanges,
                   correctedData, changes, run, firstInput, entryRef, summary,
                   parseVars, pipeVars>>

\* getSummary on the change log the first call returned
Summarize ==
    /\ rulePc = "validated"
    /\ run = 1
    /\ summary' = getSummary(changes)
    /\ rulePc' = "summarized"
    /\ UNCHANGED <<employeeData, entryIdx, correctedEntry, entryChanges,
                   correctedData, changes, run, firstInput, entryRef, issues,
                   parseVars, pipeVars>>

\* a second call, applyRules(correctedData of the first call)
ApplyAgain ==
    /\ rulePc = "summarized"
    /\ run = 1
    /\ run' = 2
    /\ employeeData' = correctedData
    /\ entryIdx' = 0
    /\ rulePc' = "loop"
    /\ correctedEntry' = NoEntry
    /\ entryChanges' = <<>>
    /\ correctedData' = <<>>
    /\ changes' = <<>>
    /\ UNCHANGED <<firstInput, entryRef, issues, summary, parseVars, pipeVars>>

NextRules ==
    \/ BeginEntry
    \/ Rule1 \/ Rule2 \/ Rule3 \/ Rule4 \/ Rule5 \/ Rule6 \/ Rule7
    \/ PushEntry
    \/ ReturnRules
    \/ Validate
    \/ Summarize
    \/ ApplyAgain

SpecRules == InitRules /\ [][NextRules]_vars

-----------------------------------------------------------------------------
(* PDFParser: the patterns parseEmployeeData matches a line against *)

\* /Pay Period Id:\s*([^\s]+)/ : the token after the first "Pay Period Id:"
\* that is followed by one
payPeriodMatch(t) ==
    LET lit  == "Pay Period Id:"
        hits == { k \in 1..(Len(t) - Len(lit) + 1) :
                    /\ SubSeq(t, k, k + Len(lit) - 1) = lit
                    /\ SpanEnd(t, k + Len(lit), SpaceSet) <= Len(t) }
    IN  IF hits = {} THEN NoMatch
        ELSE LET k == CHOOSE h \in hits : \A g \in hits : h <= g
                 a == SpanEnd(t, k + Len(lit), SpaceSet)
                 b == SpanEnd(t, a, CharsOf(t) \ SpaceSet)
             IN  [matched |-> TRUE, id |-> SubSeq(t, a, b - 1)]

\* end of a match of /\w{3}\s+\w{3}\s+\d{1,2},\s+\d{4}/ starting at k, 0 if none
reportDateEndAt(t, k) ==
    LET a == SpanEnd(t, k + 3, SpaceSet)
        b == SpanEnd(t, a + 3, SpaceSet)
        \* \d{1,2} is greedy: two digits when a comma follows them
        c == IF b + 2 <= Len(t) /\ Char(t, b + 1) \in DigitSet
                /\ Char(t, b + 2) = ","
             THEN b + 2 ELSE b + 1
        d == SpanEnd(t, c + 1, SpaceSet)
    IN  IF /\ k + 2 <= Len(t) /\ AllIn(t, k, k + 2, WordSet)
           /\ a > k + 3
           /\ a + 2 <= Len(t) /\ AllIn(t, a, a + 2, WordSet)
           /\ b > a + 3
           /\ b <= Len(t) /\ Char(t, b) \in DigitSet
           /\ c <= Len(t) /\ Char(t, c) = ","
           /\ d > c + 1
           /\ d + 3 <= Len(t) /\ AllIn(t, d, d + 3, DigitSet)
        THEN d + 3 ELSE 0

reportDateMatch(t) ==
    LET hits == { k \in 1..Len(t) : reportDateEndAt(t, k) # 0 }
    IN  IF hits = {} THEN NoMatch
        ELSE LET k == CHOOSE h \in hits : \A g \in hits : h <= g
             IN  [matched |-> TRUE, text |-> SubSeq(t, k, reportDateEndAt(t, k))]

\* [A-Za-z',.\s-]
NameSet == LowerSet \cup UpperSet \cup {"'", ",", ".", " ", "-"}

\* /^([A-Za-z',.\s-]+?)\s+-\s+(\d+)/ with the name ending at position k
employeeMatchAt(t, k) ==
    LET a == SpanEnd(t, k + 1, SpaceSet)
        b == SpanEnd(t, a + 1, SpaceSet)
    IN  /\ AllIn(t, 1, k, NameSet)
        /\ a > k + 1
        /\ a <= Len(t) /\ Char(t, a) = "-"
        /\ b > a + 1
        /\ b <= Len(t) /\ Char(t, b) \in DigitSet

\* the lazy group takes the shortest name; the digits are greedy
employeeMatch(t) ==
    LET hits == { k \in 1..Len(t) : employeeMatchAt(t, k) }
    IN  IF hits = {} THEN NoMatch
        ELSE LET k == CHOOSE h \in hits : \A g \in hits : h <= g
                 a == SpanEnd(t, k + 1, SpaceSet)
                 b == SpanEnd(t, a + 1, SpaceSet)
             IN  [matched |-> TRUE,
                  name |-> trim(SubSeq(t, 1, k)),
                  id   |-> trim(SubSeq(t, b, SpanEnd(t, b, DigitSet) - 1))]

\* /^\(([A-Z][^)]*)\)(.*)$/ || /^([A-Z]+)\)(.*)$/
jobCodeMatch(t) ==
    LET close == indexOf(t, ")")
        caps  == SpanEnd(t, 1, UpperSet)
    IN  IF /\ Len(t) >= 3 /\ Char(t, 1) = "(" /\ Char(t, 2) \in UpperSet
           /\ close # 0
        THEN [matched |-> TRUE,
              jobCode |-> SubSeq(t, 2, close - 1),
              rest    |-> SubSeq(t, close + 1, Len(t))]
        ELSE IF caps > 1 /\ caps <= Len(t) /\ Char(t, caps) = ")"
        THEN [matched |-> TRUE,
              jobCode |-> SubSeq(t, 1, caps - 1),
              rest    |-> SubSeq(t, caps + 1, Len(t))]
        ELSE NoMatch

\* /^(\d{1,2}\/\d{1,2}\/\d{4})$/
dateLineMatch(t) ==
    LET a == SpanEnd(t, 1, DigitSet)
        b == SpanEnd(t, a + 1, DigitSet)
        c == SpanEnd(t, b + 1, DigitSet)
    IN  /\ a \in 2..3
        /\ a <= Len(t) /\ Char(t, a) = "/"
        /\ b - (a + 1) \in 1..2
        /\ b <= Len(t) /\ Char(t, b) = "/"
        /\ c - (b + 1) = 4
        /\ c = Len(t) + 1

\* /^(\d+(?:\.\d+)?)\s*$/
hoursLineMatch(t) ==
    LET a == SpanEnd(t, 1, DigitSet)
        b == SpanEnd(t, a + 1, DigitSet)
        numEnd == IF a <= Len(t) /\ Char(t, a) = "." /\ b > a + 1 THEN b ELSE a
    IN  IF a > 1 /\ SpanEnd(t, numEnd, SpaceSet) = Len(t) + 1
        THEN [matched |-> TRUE, text |-> SubSeq(t, 1, numEnd - 1)]
        ELSE NoMatch

\* /^\d+$/
isNumericLine(t) == t # "" /\ AllIn(t, 1, Len(t), DigitSet)

\* parseFloat of a decimal numeral, in hundredths of an hour
parseFloat(num) ==
    LET dot  == indexOf(num, ".")
        int  == IF dot = 0 THEN num ELSE SubSeq(num, 1, dot - 1)
        frac == IF dot = 0 THEN "" ELSE SubSeq(num, dot + 1, Len(num))
        cents == IF Len(frac) = 0 THEN 0
                 ELSE IF Len(frac) = 1 THEN DigitsValue(frac) * 10
                 ELSE DigitsValue(SubSeq(frac, 1, 2))
    IN  DigitsValue(int) * 100 + cents

\* dashParts[k] || fallback
partOr(parts, k, fallback) ==
    IF k <= Len(parts) /\ parts[k] # "" THEN parts[k] ELSE fallback

trimAll(parts) == [k \in 1..Len(parts) |-> trim(parts[k])]

-----------------------------------------------------------------------------
(* PDFParser.parseEmployeeData: what the scan reads off one line *)

\* Every test and match the loop body applies to a line, as a record.
LineFacts(l) ==
    LET t == trim(l) IN
    [ trimmed        |-> t,
      payPeriod      |-> IF includes(t, "Pay Period Id:")
                         THEN payPeriodMatch(t) ELSE NoMatch,
      reportDate     |-> reportDateMatch(t),
      header         |-> IF employeeMatch(t).matched /\ ~includes(t, "Date")
                            /\ ~includes(t, "Hours")
                         THEN employeeMatch(t) ELSE NoMatch,
      job            |-> jobCodeMatch(t),
      isDate         |-> dateLineMatch(t),
      hours          |-> hoursLineMatch(t),
      hasDash        |-> includes(t, " - "),
      dashParts      |-> trimAll(split(t, " - ")),
      isSourceLabor  |-> t = "Source" \/ startsWith(t, "Labor"),
      isNumeric      |-> isNumericLine(t),
      employeeTotals |-> includes(t, "Employee Totals"),
      reportTotals   |-> includes(t, "Report Totals") ]

\* employeeEntries.forEach(entry => allEntries.push({...entry, employeeName, ...}))
stamp(entry, emp, pp, rd) ==
    [ jobCode |-> entry.jobCode, jobDescription |-> entry.jobDescription,
      date |-> entry.date, hours |-> entry.hours, payType |-> entry.payType,
      laborRate |-> entry.laborRate, costCode |-> entry.costCode,
      costCategory |-> entry.costCategory, description |-> entry.description,
      originalLine |-> entry.originalLine,
      employeeName |-> emp.name, employeeId |-> emp.id,
      payPeriodId |-> pp, reportDate |-> rd ]

\* a flush that puts the section in front of the output instead of behind it
flushInto_Prepend(out, emp, buf, pp, rd) ==
    IF emp # NoEmployee /\ Len(buf) > 0
    THEN [k \in 1..Len(buf) |-> stamp(buf[k], emp, pp, rd)] \o out
    ELSE out

\* if (currentEmployee && employeeEntries.length > 0) { ...push each... }
flushInto(out, emp, buf, pp, rd) ==
    IF emp # NoEmployee /\ Len(buf) > 0
    THEN out \o [k \in 1..Len(buf) |-> stamp(buf[k], emp, pp, rd)]
    ELSE out

flushSrc(out, emp, src) ==
    IF emp # NoEmployee /\ Len(src) > 0 THEN out \o src ELSE out

-----------------------------------------------------------------------------
(* PDFParser.parseEmployeeData: inputs *)

\* most fragments a report is put together from
MaxBlocks == 3

HeaderJohn     == "John Smith - 101"
HeaderJane     == "Jane Doe - 202"
JobLine        == "(CES1)BAUER"
DateLine       == "07/28/2025"
HoursLine      == "1.50"
ZeroHoursLine  == "0.00"
DetailsLine    == "Call - WN TECH - SERVICE - DirLab - No Bill"
SingleLine     == "(CES2)ACME 07/29/2025 2.00 - Regular - Tech - SERVICE - DirLab - Shop"
SingleZeroLine == "(CES3)ACME 07/29/2025 0.00 - Regular - Tech - SERVICE - DirLab - Shop"
EmployeeTotalsLine  == "Employee Totals 3.50"
ReportTotalsLine    == "Report Totals 3.50"
ReportTotalsDashed  == "Report Totals - 7"
BlankLine           == ""
PayPeriodLine       == "Pay Period Id: 2025-16"
PayPeriodLine2      == "Pay Period Id: 2025-17"
ReportDateLine      == "Mon Aug 04, 2025"
ReportDateLine2     == "Tue Aug 05, 2025"
HeaderJanePeriod    == "Jane Doe - 202 Pay Period Id: 2025-18"

\* report fragments: headers, entries in both layouts, whole sections of one
\* entry, totals lines, an empty line, pay-period and report-date lines, a
\* header that carries the pay period
Blocks ==
    { <<HeaderJohn>>,
      <<HeaderJane>>,
      <<HeaderJohn, JobLine, DateLine, HoursLine, DetailsLine>>,
      <<HeaderJane, JobLine, DateLine, HoursLine, DetailsLine>>,
      <<BlankLine>>,
      <<JobLine, DateLine, HoursLine, DetailsLine>>,
      <<JobLine, DateLine, ZeroHoursLine, DetailsLine>>,
      <<JobLine, DateLine, HoursLine>>,
      <<SingleLine>>,
      <<SingleZeroLine>>,
      <<EmployeeTotalsLine>>,
      <<ReportTotalsLine>>,
      <<ReportTotalsDashed>>,
      <<PayPeriodLine, ReportDateLine>>,
      <<ReportDateLine2, PayPeriodLine2>>,
      <<HeaderJanePeriod>> }

RECURSIVE Documents(_)
Documents(n) ==
    IF n = 0 THEN { <<>> }
    ELSE LET shorter == Documents(n - 1)
         IN  shorter \cup { d \o b : d \in shorter, b \in Blocks }

\* the distinct lines of the documents; a line's facts are computed once
LineVocab == UNION { SeqToSet(b) : b \in Blocks }
lineFacts == [l \in LineVocab |-> LineFacts(l)]

-----------------------------------------------------------------------------
(* PDFParser.parseEmployeeData: the four-line window starting at line k *)

\* a look-ahead that is not bounded by the number of lines
lookAheadInRange_Unchecked(info, k) == TRUE

\* if (i + 3 < lines.length)
lookAheadInRange(info, k) == k + 3 <= Len(info)

\* lines[i + 1].trim() and the like on a line past the end: a TypeError
windowThrows(info, k) ==
    info[k].job.matched /\ lookAheadInRange(info, k) /\ k + 3 > Len(info)

\* the entry of the window, and the number of lines consumed after line k
fourLineWindow(info, k) ==
    LET line == info[k] IN
    IF line.job.matched /\ lookAheadInRange(info, k)
    THEN LET nextLine1 == info[k + 1]
             nextLine2 == info[k + 2]
             nextLine3 == info[k + 3]
         IN  IF nextLine1.isDate /\ nextLine2.hours.matched /\ nextLine3.hasDash
             THEN LET dashParts == nextLine3.dashParts
                      k3 == k + 3
                      k4 == IF k3 + 1 <= Len(info) /\ info[k3 + 1].isSourceLabor
                            THEN k3 + 1 ELSE k3
                      k5 == IF k4 + 1 <= Len(info) /\ info[k4 + 1].isNumeric
                            THEN k4 + 1 ELSE k4
                  IN  [matched |-> TRUE,
                       entry |->
                         [ jobCode        |-> line.job.jobCode,
                           jobDescription |-> trim(line.job.rest),
                           date           |-> nextLine1.trimmed,
                           hours          |-> parseFloat(nextLine2.hours.text),
                           payType        |-> partOr(dashParts, 1, "Regular"),
                           laborRate      |-> partOr(dashParts, 2, "Tech"),
                           costCode       |-> partOr(dashParts, 3, "SERVICE"),
                           costCategory   |-> partOr(dashParts, 4, "DirLab"),
                           description    |-> partOr(dashParts, 5, ""),
                           originalLine   |-> line.trimmed \o " " \o nextLine1.trimmed
                                               \o " " \o nextLine2.trimmed
                                               \o " " \o nextLine3.trimmed ],
                       skip |-> k5 - k]
             ELSE NoMatch
    ELSE NoMatch

-----------------------------------------------------------------------------
(* PDFParser.parseEmployeeData: the scan, one step per loop iteration *)

RulesIdle ==
    /\ entryRef = "fresh" /\ issues = <<>> /\ summary = NoSummary
    /\ employeeData = <<>> /\ firstInput = <<>> /\ run = 1 /\ entryIdx = 0
    /\ rulePc = "idle" /\ correctedEntry = NoEntry /\ entryChanges = <<>>
    /\ correctedData = <<>> /\ changes = <<>>

InitParse ==
    /\ lines \in Documents(MaxBlocks)
    /\ lineInfo = [k \in 1..Len(lines) |-> lineFacts[lines[k]]]
    /\ i = 1
    /\ parsePc = "scan"
    /\ currentEmployee = NoEmployee
    /\ employeeEntries = <<>>
    /\ allEntries = <<>>
    /\ payPeriodId = ""
    /\ reportDate = ""
    /\ stopped = FALSE
    /\ headerLine = 0
    /\ accepted = <<>>
    /\ bufSrc = <<>>
    /\ outSrc = <<>>
    /\ RulesIdle
    /\ PipeIdle

\* payPeriodId after the pay-period check of the iteration on a line
payPeriodAfter(line, pp) ==
    IF line.payPeriod.matched THEN line.payPeriod.id ELSE pp

\* reportDate after the report-date check of the iteration on a line
reportDateAfter(line, rd) ==
    IF rd = "" /\ line.reportDate.matched THEN line.reportDate.text ELSE rd

\* if (!trimmedLine) continue;
SkipEmptyLine ==
    /\ parsePc = "scan"
    /\ i <= Len(lines)
    /\ lineInfo[i].trimmed = ""
    /\ i' = i + 1
    /\ UNCHANGED <<lines, lineInfo, parsePc, currentEmployee, employeeEntries, allEntries,
                   payPeriodId, reportDate, stopped, headerLine, accepted,
                   bufSrc, outSrc, ruleVars, pipeVars>>

\* the iteration on an employee header: flush, start the new employee, continue
EmployeeHeader ==
    /\ parsePc = "scan"
    /\ i <= Len(lines)
    /\ LET line == lineInfo[i]
           pp   == payPeriodAfter(line, payPeriodId)
           rd   == reportDateAfter(line, reportDate)
       IN  /\ line.trimmed # ""
           /\ line.header.matched
           /\ payPeriodId' = pp
           /\ reportDate' = rd
           /\ allEntries' = flushInto(allEntries, currentEmployee, employeeEntries, pp, rd)
           /\ outSrc' = flushSrc(outSrc, currentEmployee, bufSrc)
           /\ currentEmployee' = [name |-> line.header.name, id |-> line.header.id]
           /\ employeeEntries' = <<>>
           /\ bufSrc' = <<>>
           /\ headerLine' = i
           /\ i' = i + 1
    /\ UNCHANGED <<lines, lineInfo, parsePc, stopped, accepted, ruleVars, pipeVars>>

\* the iteration on any other line: entry window, Employee Totals, Report Totals
ScanLine ==
    /\ parsePc = "scan"
    /\ i <= Len(lines)
    /\ lineInfo[i].trimmed # ""
    /\ ~lineInfo[i].header.matched
    /\ IF currentEmployee # NoEmployee /\ windowThrows(lineInfo, i)
       THEN \* an error inside the loop body: catch, then
            \* throw new Error(`Failed to parse employee data: ...`)
            /\ parsePc' = "threw"
            /\ UNCHANGED <<i, currentEmployee, employeeEntries, allEntries,
                           payPeriodId, reportDate, stopped, headerLine,
                           accepted, bufSrc, outSrc>>
       ELSE
           LET line == lineInfo[i]
                  pp   == payPeriodAfter(line, payPeriodId)
                  rd   == reportDateAfter(line, reportDate)
                  win  == IF currentEmployee # NoEmployee
                          THEN fourLineWindow(lineInfo, i) ELSE NoMatch
                  buf  == IF win.matched THEN Append(employeeEntries, win.entry)
                          ELSE employeeEntries
                  src  == IF win.matched
                          THEN Append(bufSrc, [line |-> i, header |-> headerLine])
                          ELSE bufSrc
                  i2   == IF win.matched THEN i + win.skip ELSE i
              IN  /\ line.trimmed # ""
                  /\ ~line.header.matched
                  /\ payPeriodId' = pp
                  /\ reportDate' = rd
                  /\ accepted' = IF win.matched
                                 THEN Append(accepted, [line |-> i, entry |-> win.entry])
                                 ELSE accepted
                  /\ IF line.employeeTotals
                     THEN /\ allEntries' = flushInto(allEntries, currentEmployee, buf, pp, rd)
                          /\ outSrc' = flushSrc(outSrc, currentEmployee, src)
                          /\ currentEmployee' = NoEmployee
                          /\ employeeEntries' = <<>>
                          /\ bufSrc' = <<>>
                          /\ headerLine' = 0
                     ELSE /\ employeeEntries' = buf
                          /\ bufSrc' = src
                          /\ UNCHANGED <<allEntries, outSrc, currentEmployee, headerLine>>
                  /\ IF line.reportTotals
                     THEN /\ parsePc' = "after" /\ stopped' = TRUE /\ i' = i2
                     ELSE /\ i' = i2 + 1 /\ UNCHANGED <<parsePc, stopped>>
    /\ UNCHANGED <<lines, lineInfo, ruleVars, pipeVars>>

\* the loop condition i < lines.length fails
LoopEnd ==
    /\ parsePc = "scan"
    /\ i > Len(lines)
    /\ parsePc' = "after"
    /\ UNCHANGED <<lines, lineInfo, i, currentEmployee, employeeEntries, allEntries,
                   payPeriodId, reportDate, stopped, headerLine, accepted,
                   bufSrc, outSrc, ruleVars, pipeVars>>

\* a return without the save of the last employee's entries
ReturnEntries_NoFlush ==
    /\ parsePc = "after"
    /\ parsePc' = "done"
    /\ UNCHANGED <<lines, lineInfo, i, currentEmployee, employeeEntries, allEntries,
                   payPeriodId, reportDate, stopped, headerLine, accepted,
                   bufSrc, outSrc, ruleVars, pipeVars>>

\* after the loop: save the last employee's entries, return allEntries
ReturnEntries ==
    /\ parsePc = "after"
    /\ allEntries' = flushInto(allEntries, currentEmployee, employeeEntries,
                               payPeriodId, reportDate)
    /\ outSrc' = flushSrc(outSrc, currentEmployee, bufSrc)
    /\ parsePc' = "done"
    /\ UNCHANGED <<lines, lineInfo, i, currentEmployee, employeeEntries, payPeriodId,
                   reportDate, stopped, headerLine, accepted, bufSrc, ruleVars, pipeVars>>

NextParse ==
    \/ SkipEmptyLine
    \/ EmployeeHeader
    \/ ScanLine
    \/ LoopEnd
    \/ ReturnEntries

SpecParse == InitParse /\ [][NextParse]_vars

\* most fragments of a report in the runs that are checked for termination
MaxFairBlocks == 2

InitParseFair == InitParse /\ lines \in Documents(MaxFairBlocks)

\* the scan is a for loop that runs to completion once it is called
SpecParseFair == InitParseFair /\ [][NextParse]_vars /\ WF_vars(NextParse)

-----------------------------------------------------------------------------
(* router.post('/process'): the request handler of the processing pipeline *)

\* req.file is undefined: the request carries no upload
NoFile == [present |-> FALSE, readable |-> FALSE, text |-> <<>>, info |-> <<>>]

\* an upload pdf-parse cannot read
CorruptFile == [present |-> TRUE, readable |-> FALSE, text |-> <<>>, info |-> <<>>]

\* an upload whose extracted text is the given lines
ReadableFile(doc) ==
    [ present |-> TRUE, readable |-> TRUE, text |-> doc,
      info |-> [k \in 1..Len(doc) |-> lineFacts[doc[k]]] ]

\* two sections of one entry each, no pay period and no report date
TwoSectionsText ==
    << HeaderJohn, JobLine, DateLine, HoursLine, DetailsLine, BlankLine,
       HeaderJane, JobLine, DateLine, HoursLine, DetailsLine >>

\* a report with pay period, report date and one section closed by its totals
DatedSectionText ==
    << PayPeriodLine, ReportDateLine, HeaderJane, JobLine, DateLine, HoursLine,
       DetailsLine, EmployeeTotalsLine >>

\* a text without any entry
NoEntriesText == << BlankLine, HeaderJane, ReportTotalsLine >>

Files ==
    { NoFile, CorruptFile, ReadableFile(TwoSectionsText),
      ReadableFile(DatedSectionText), ReadableFile(NoEntriesText) }

\* requests 1 and 2 are served one after the other, each on its own; requests
\* 3 and 4 arrive afterwards, carry the files of 1 and 2 and run concurrently
Requests     == 1..4
SoloRequests == {1, 2}
Concurrent   == {3, 4}
TwinOf(r)    == r - 2

NoResponse == [none |-> TRUE]

NewRequest(file) ==
    [ pc |-> "new", file |-> file, parseFailed |-> FALSE,
      employeeData |-> <<>>, correctedData |-> <<>>, changes |-> <<>>,
      response |-> NoResponse,
      ranParse |-> FALSE, ranRules |-> FALSE, overlapped |-> FALSE ]

\* the handler of the request is between its first and its last statement
Busy(q) == req[q].pc \notin {"new", "responded"}

\* another request is in progress while r runs
OtherBusy(r) == \E q \in Requests \ {r} : Busy(q)

\* the request has arrived
Arrived(r) ==
    \/ r = 1
    \/ r = 2 /\ req[1].pc = "responded"
    \/ r \in Concurrent /\ \A q \in SoloRequests : req[q].pc = "responded"

\* res.status(code).json({ error, ... })
errorResponse(code, error) == [status |-> code, error |-> error]

\* res.json({ success: true, originalCount, correctedCount, changesCount, data })
successResponse(original, corrected, log) ==
    [ status |-> 200, success |-> TRUE,
      originalCount |-> Len(original), correctedCount |-> Len(corrected),
      changesCount |-> Len(log),
      data |-> [original |-> original, corrected |-> corrected, changes |-> log] ]

\* an extraction that yields an empty text where pdf-parse fails
extractText_EmptyOnFailure(file) ==
    IF file.readable THEN [ok |-> TRUE, text |-> file.text, info |-> file.info]
    ELSE [ok |-> TRUE, text |-> <<BlankLine>>, info |-> <<lineFacts[BlankLine]>>]

\* pdfParser.extractText: the text of the document, or an exception
extractText(file) ==
    IF file.readable THEN [ok |-> TRUE, text |-> file.text, info |-> file.info]
    ELSE [ok |-> FALSE, text |-> <<>>, info |-> <<>>]

\* an output list that lives on from call to call
newEntryList_Shared(previous) == previous

\* const allEntries = []
newEntryList(previous) == <<>>

\* the handler up to its first await: the file check, the call of extractText
Start(r) ==
    /\ active = 0
    /\ Arrived(r)
    /\ req[r].pc = "new"
    /\ req' = [req EXCEPT ![r] =
                 IF ~req[r].file.present
                 THEN [@ EXCEPT !.pc = "responded",
                                !.response = errorResponse(400, "No PDF file uploaded")]
                 ELSE [@ EXCEPT !.pc = "extracting",
                                !.overlapped = @ \/ OtherBusy(r)]]
    /\ UNCHANGED <<active, ruleVars, parseVars>>

\* extractText has settled: the catch of step 1, or the call of
\* parseEmployeeData, which starts to run at once
Extracted(r) ==
    /\ active = 0
    /\ req[r].pc = "extracting"
    /\ LET extracted == extractText(req[r].file) IN
       IF ~extracted.ok
       THEN /\ req' = [req EXCEPT ![r] =
                         [@ EXCEPT !.pc = "responded",
                                   !.overlapped = @ \/ OtherBusy(r),
                                   !.response =
                                      errorResponse(422, "Failed to extract text from PDF")]]
            /\ UNCHANGED <<active, parseVars>>
       ELSE /\ req' = [req EXCEPT ![r] =
                         [@ EXCEPT !.pc = "parsing", !.ranParse = TRUE,
                                   !.overlapped = @ \/ OtherBusy(r)]]
            /\ active' = r
            /\ lines' = extracted.text
            /\ lineInfo' = extracted.info
            /\ i' = 1
            /\ parsePc' = "scan"
            /\ currentEmployee' = NoEmployee
            /\ employeeEntries' = <<>>
            /\ allEntries' = newEntryList(allEntries)
            /\ payPeriodId' = ""
            /\ reportDate' = ""
            /\ stopped' = FALSE
            /\ headerLine' = 0
            /\ accepted' = <<>>
            /\ bufSrc' = <<>>
            /\ outSrc' = <<>>
    /\ UNCHANGED ruleVars

\* parseEmployeeData has returned or thrown; the handler awaits its promise
ParseSettled(r) ==
    /\ active = r
    /\ req[r].pc = "parsing"
    /\ parsePc \in {"done", "threw"}
    /\ req' = [req EXCEPT ![r] =
                 [@ EXCEPT !.pc = "parsed",
                           !.parseFailed = (parsePc = "threw"),
                           !.employeeData = IF parsePc = "done" THEN allEntries
                                            ELSE <<>>]]
    /\ active' = 0
    /\ parsePc' = "idle"
    /\ UNCHANGED <<lines, lineInfo, i, currentEmployee, employeeEntries, allEntries,
                   payPeriodId, reportDate, stopped, headerLine, accepted,
                   bufSrc, outSrc, ruleVars>>

\* the handler resumes after step 2: the catch of step 2, or the call of
\* applyRules, which starts to run at once
Parsed(r) ==
    /\ active = 0
    /\ req[r].pc = "parsed"
    /\ IF req[r].parseFailed
       THEN /\ req' = [req EXCEPT ![r] =
                         [@ EXCEPT !.pc = "responded",
                                   !.overlapped = @ \/ OtherBusy(r),
                                   !.response =
                                      errorResponse(422, "Failed to parse payroll data")]]
            /\ UNCHANGED <<active, ruleVars>>
       ELSE /\ req' = [req EXCEPT ![r] =
                         [@ EXCEPT !.pc = "ruling", !.ranRules = TRUE,
                                   !.overlapped = @ \/ OtherBusy(r)]]
            /\ active' = r
            /\ employeeData' = req[r].employeeData
            /\ firstInput' = req[r].employeeData
            /\ run' = 1
            /\ entryIdx' = 0
            /\ rulePc' = "loop"
            /\ correctedEntry' = NoEntry
            /\ entryChanges' = <<>>
            /\ correctedData' = <<>>
            /\ changes' = <<>>
            /\ entryRef' = "fresh"
            /\ issues' = <<>>
            /\ summary' = NoSummary
    /\ UNCHANGED parseVars

\* applyRules has returned; the handler awaits its promise
RulesSettled(r) ==
    /\ active = r
    /\ req[r].pc = "ruling"
    /\ rulePc = "done"
    /\ req' = [req EXCEPT ![r] =
                 [@ EXCEPT !.pc = "ruled",
                           !.correctedData = correctedData,
                           !.changes = changes]]
    /\ active' = 0
    /\ rulePc' = "idle"
    /\ UNCHANGED <<employeeData, entryIdx, correctedEntry, entryChanges,
                   correctedData, changes, run, firstInput, entryRef, issues,
                   summary, parseVars>>

\* the handler resumes after step 3 and sends the result
Respond(r) ==
    /\ active = 0
    /\ req[r].pc = "ruled"
    /\ req' = [req EXCEPT ![r] =
                 [@ EXCEPT !.pc = "responded",
                           !.overlapped = @ \/ OtherBusy(r),
                           !.response = successResponse(req[r].employeeData,
                                                        req[r].correctedData,
                                                        req[r].changes)]]
    /\ UNCHANGED <<active, ruleVars, parseVars>>

InitPipeline ==
    /\ req \in { [r \in Requests |-> NewRequest(IF r \in {1, 3} THEN f ELSE g)] :
                   f \in Files, g \in Files }
    /\ active = 0
    /\ ParserIdle
    /\ RulesIdle

\* the synchronous code of parseEmployeeData and of applyRules runs between
\* two awaits of the request that called it
NextPipeline ==
    \/ \E r \in Requests : Start(r)
    \/ \E r \in Requests : Extracted(r)
    \/ SkipEmptyLine
    \/ EmployeeHeader
    \/ ScanLine
    \/ LoopEnd
    \/ ReturnEntries
    \/ \E r \in Requests : ParseSettled(r)
    \/ \E r \in Requests : Parsed(r)
    \/ BeginEntry
    \/ Rule1 \/ Rule2 \/ Rule3 \/ Rule4 \/ Rule5 \/ Rule6 \/ Rule7
    \/ PushEntry
    \/ ReturnRules
    \/ \E r \in Requests : RulesSettled(r)
    \/ \E r \in Requests : Respond(r)

SpecPipeline == InitPipeline /\ [][NextPipeline]_vars

-----------------------------------------------------------------------------
(* Properties of the rule engine *)

\* the first call, on a list of one entry, has returned
FirstCallDone == rulePc = "done" /\ run = 1 /\ Len(firstInput) = 1
\* the call on the first call's result has returned
SecondCallDone == rulePc = "done" /\ run = 2 /\ Len(firstInput) = 1

IsOfficeCode(costCode) ==
    costCode \in {"1COAD", "1coad", "1SCHOF", "1schof", "1WNOF", "1wnof"}

RulesOfLog(log) == { log[k].rule : k \in 1..Len(log) }

\* C1: Idempotence of the rule pipeline: applyRules on the corrected entry of
\* applyRules([e]) records zero changes and leaves that entry unchanged.
C1_Idempotence ==
    SecondCallDone => (changes = <<>> /\ correctedData = employeeData)

\* C9 as stated: every entry with costCategory "TechUnapplyd" and payType
\* "Call" is returned with payType "Unapplied".
C9_Rule1PrecedenceAsStated ==
    (FirstCallDone /\ firstInput[1].costCategory = "TechUnapplyd"
                   /\ firstInput[1].payType = "Call")
        => correctedData[1].payType = "Unapplied"

\* C9 amended: an entry with costCategory "TechUnapplyd" and payType "Call"
\* that is not dated on a Sunday and whose costCode is not an office code is
\* returned with payType "Unapplied"; and for every entry with that category
\* and pay type Rule 5 records no change, because Rule 1 ran before it.
C9_Rule1Precedence ==
    (FirstCallDone /\ firstInput[1].costCategory = "TechUnapplyd"
                   /\ firstInput[1].payType = "Call")
        => /\ "Rule 5: Call Work Labor Rate" \notin RulesOfLog(changes)
           /\ (firstInput[1].date \notin SundayDates
                 /\ ~IsOfficeCode(firstInput[1].costCode))
                => correctedData[1].payType = "Unapplied"

C9_Witness ==
    /\ FirstCallDone
    /\ firstInput[1].costCategory = "TechUnapplyd"
    /\ firstInput[1].payType = "Call"
    /\ firstInput[1].date = "11/04/2024"
    /\ firstInput[1].costCode = "SERVICE"
    /\ firstInput[1].laborRate = "WN TECH"
    /\ correctedData[1].payType = "Unapplied"
    /\ correctedData[1].laborRate = "WN TECH"

\* the rates of the vocabulary that already contain PREM
PremRates == {"PREM", "WN PREM", "SCH_PREM"}

\* the PREM variant with the branch prefix of each other rate of the vocabulary
PremVariantOf ==
    [ r \in LaborRates \ PremRates |->
        IF r \in {"WN TECH", "WN MN TECH", "WN PM TECH", "WN HELPER",
                  "WN TECHOT"} THEN "WN PREM"
        ELSE IF r \in {"SCH_TECH", "SCH_MNTECH", "SCH_HELPER", "SCH_TECHOT"}
             THEN "SCH PREM"
        ELSE IF r \in {"MNTech", "MN TECH", "MN PMTECH", "MN HELPER"}
             THEN "MN PREM"
        ELSE "PREM" ]

\* C10 as stated: every entry dated on a Sunday is returned with payType
\* "Double Time" and the PREM variant that keeps the branch prefix of the
\* entry's rate.
C10_SundayRuleAsStated ==
    (FirstCallDone /\ firstInput[1].date \in SundayDates)
        => /\ correctedData[1].payType = "Double Time"
           /\ correctedData[1].laborRate =
                 (IF firstInput[1].laborRate \in PremRates
                  THEN (IF startsWith(firstInput[1].laborRate, "WN")
                        THEN "WN PREM"
                        ELSE IF startsWith(firstInput[1].laborRate, "SCH")
                        THEN "SCH PREM" ELSE "PREM")
                  ELSE PremVariantOf[firstInput[1].laborRate])

\* C10 amended: an entry dated on a Sunday is returned with payType
\* "Double Time" unless its costCode is an office code (then "Regular", by
\* Rule 7), and with a labor rate that contains PREM: plain "PREM" when
\* Rule 2 or Rule 3 rewrote the rate, else the entry's own rate when it
\* already contains PREM, else the PREM variant that keeps the branch prefix
\* of the entry's rate.
C10_SundayRule ==
    (FirstCallDone /\ firstInput[1].date \in SundayDates)
        => /\ correctedData[1].payType =
                 (IF IsOfficeCode(firstInput[1].costCode)
                  THEN "Regular" ELSE "Double Time")
           /\ correctedData[1].laborRate =
                 (IF RulesOfLog(changes) \cap
                        {"Rule 2: Service/Install Labor Rate Validation",
                         "Rule 3: PM Labor Rate Validation"} # {}
                  THEN "PREM"
                  ELSE IF firstInput[1].laborRate \in PremRates
                  THEN firstInput[1].laborRate
                  ELSE PremVariantOf[firstInput[1].laborRate])

C10_Witness ==
    /\ FirstCallDone
    /\ firstInput[1].date = "08/03/2025"
    /\ firstInput[1].payType = "Regular"
    /\ firstInput[1].laborRate = "SCH_TECH"
    /\ firstInput[1].costCode = "SERVICE"
    /\ correctedData[1].payType = "Double Time"
    /\ correctedData[1].laborRate = "SCH PREM"

-----------------------------------------------------------------------------
(* Properties of the parser *)

ParseDone == parsePc = "done"

MaxOf(S) == CHOOSE x \in S : \A y \in S : y <= x

\* indices of the lines before line k that match the employee-header pattern
HeaderLinesBefore(k) == { j \in 1..(k - 1) : lineInfo[j].header.matched }

\* indices, in increasing order, of the lines of doc that are in the set ls
RECURSIVE IndicesOf(_, _, _)
IndicesOf(doc, ls, k) ==
    IF k > Len(doc) THEN <<>>
    ELSE (IF doc[k] \in ls THEN <<k>> ELSE <<>>) \o IndicesOf(doc, ls, k + 1)

\* the fields an entry has before it is stamped with its employee
EntryFields == {"jobCode", "jobDescription", "date", "hours", "payType",
                "laborRate", "costCode", "costCategory", "description",
                "originalLine"}

SameEntry(stamped, entry) == \A f \in EntryFields : stamped[f] = entry[f]

\* C2: every entry of the list parseEmployeeData returns has hours > 0; a
\* window whose hours value is 0 yields no entry.
C2_HoursPositive ==
    \A k \in 1..Len(allEntries) : allEntries[k].hours > 0

\* C3: the scan stops at every line that contains "Report Totals": the loop
\* never goes on past such a line, and no line after it starts an entry of
\* the output.
C3_ReportTotalsTruncation ==
    /\ parsePc = "scan" =>
          \A j \in 1..(i - 1) : j <= Len(lines) => ~lineInfo[j].reportTotals
    /\ \A k \in 1..Len(outSrc) :
          \A j \in 1..(outSrc[k].line - 1) : ~lineInfo[j].reportTotals

\* C4 as stated: the output is in source line order, all entries of one
\* employee are contiguous, and employees appear in the order of their headers.
C4_OrderingAsStated ==
    ParseDone =>
       /\ \A a, b \in 1..Len(outSrc) : a < b => outSrc[a].line < outSrc[b].line
       /\ \A a, b, c \in 1..Len(allEntries) :
             (a < b /\ b < c /\ allEntries[a].employeeId = allEntries[c].employeeId)
                => allEntries[b].employeeId = allEntries[a].employeeId
       /\ \A a, b \in 1..Len(outSrc) : a < b => outSrc[a].header <= outSrc[b].header

\* C4 amended: the output is in source line order; the entries collected
\* under one occurrence of an employee header are contiguous, carry that
\* header's id, and these groups appear in the order of their headers; the
\* entries of one employee are split only when that employee's header occurs
\* again after another employee's header.
C4_Ordering ==
    ParseDone =>
       /\ Len(outSrc) = Len(allEntries)
       /\ \A a, b \in 1..Len(outSrc) : a < b => outSrc[a].line < outSrc[b].line
       /\ \A a, b \in 1..Len(outSrc) : a < b => outSrc[a].header <= outSrc[b].header
       /\ \A a \in 1..Len(outSrc) :
             /\ outSrc[a].header \in 1..(outSrc[a].line - 1)
             /\ allEntries[a].employeeId = lineInfo[outSrc[a].header].header.id
       /\ \A a, b, c \in 1..Len(allEntries) :
             (a < b /\ b < c /\ allEntries[a].employeeId = allEntries[c].employeeId
                /\ allEntries[b].employeeId # allEntries[a].employeeId)
                => /\ outSrc[a].header < outSrc[b].header
                   /\ outSrc[b].header < outSrc[c].header

C4_Witness ==
    /\ ParseDone
    /\ Len(allEntries) = 3
    /\ allEntries[1].employeeId = "101"
    /\ allEntries[2].employeeId = "202"
    /\ allEntries[3].employeeId = "101"

\* documents of C5: sections of an employee header, single-line entries and
\* an "Employee Totals" line
IsSingleLineSections(doc) ==
    /\ Len(doc) >= 3
    /\ \A k \in 1..Len(doc) :
          doc[k] \in {HeaderJohn, HeaderJane, SingleLine, EmployeeTotalsLine}
    /\ doc[1] \in {HeaderJohn, HeaderJane}
    /\ doc[Len(doc)] = EmployeeTotalsLine
    /\ \A k \in 1..(Len(doc) - 1) :
          /\ doc[k] \in {HeaderJohn, HeaderJane} => doc[k + 1] = SingleLine
          /\ doc[k] = EmployeeTotalsLine => doc[k + 1] \in {HeaderJohn, HeaderJane}

IdOfHeader(l) == IF l = HeaderJohn THEN "101" ELSE "202"

\* C5: for a document of such sections, parsing returns exactly one entry per
\* entry line, each stamped with the employeeId of its section's header, in
\* the original order.
C5_EmployeeGrouping ==
    (ParseDone /\ IsSingleLineSections(lines)) =>
       LET at == IndicesOf(lines, {SingleLine}, 1)
       IN  /\ Len(allEntries) = Len(at)
           /\ \A n \in 1..Len(at) :
                 allEntries[n].employeeId =
                    IdOfHeader(lines[MaxOf({ j \in 1..at[n] :
                                  lines[j] \in {HeaderJohn, HeaderJane} })])

\* C6: every output entry carries the name and id of the employee-header line
\* that most recently precedes its lines, with no "Employee Totals" line in
\* between; lines outside such a span produce no output entry.
C6_EmployeeScoping ==
    ParseDone =>
       \A k \in 1..Len(outSrc) :
          LET s  == outSrc[k].line
              hs == HeaderLinesBefore(s)
          IN  /\ hs # {}
              /\ \A j \in (MaxOf(hs) + 1)..(s - 1) : ~lineInfo[j].employeeTotals
              /\ allEntries[k].employeeName = lineInfo[MaxOf(hs)].header.name
              /\ allEntries[k].employeeId = lineInfo[MaxOf(hs)].header.id

\* C7: every entry accepted into the buffer is in the output exactly once when
\* the scan has ended, and until then exactly once in the output or buffer.
C7_NoEntryLost ==
    LET held == IF ParseDone THEN allEntries ELSE allEntries \o employeeEntries
    IN  /\ Len(held) = Len(accepted)
        /\ \A k \in 1..Len(held) : SameEntry(held[k], accepted[k].entry)

\* the four ways of closing a section: new header and "Report Totals" ...
C7_Witness ==
    /\ ParseDone
    /\ stopped
    /\ Len(accepted) = 2
    /\ Len(allEntries) = 2
    /\ allEntries[1].employeeId = "101"
    /\ allEntries[2].employeeId = "202"

\* ... "Employee Totals" and the end of the input
C7_WitnessTotalsAndEnd ==
    /\ ParseDone
    /\ ~stopped
    /\ Len(accepted) = 2
    /\ Len(allEntries) = 2
    /\ \E k \in 1..Len(lines) : lines[k] = EmployeeTotalsLine
    /\ lines[Len(lines)] = DetailsLine

\* documents of C8: one employee header followed by valid entries of the two
\* layouts
IsEntriesOfBothLayouts(doc) ==
    /\ Len(doc) >= 2
    /\ doc[1] = HeaderJohn
    /\ \A k \in 2..Len(doc) :
          \/ doc[k] = SingleLine
          \/ /\ doc[k] = JobLine
             /\ k + 3 <= Len(doc)
             /\ doc[k + 1] = DateLine /\ doc[k + 2] = HoursLine
             /\ doc[k + 3] = DetailsLine
          \/ /\ doc[k] = DateLine /\ doc[k - 1] = JobLine
          \/ /\ doc[k] = HoursLine /\ doc[k - 1] = DateLine
          \/ /\ doc[k] = DetailsLine /\ doc[k - 1] = HoursLine

\* C8: inside an employee section the parser yields one entry for each valid
\* single-line entry and one entry for each valid four-line entry.
C8_BothLayouts ==
    (ParseDone /\ IsEntriesOfBothLayouts(lines)) =>
       Len(allEntries) = Len(IndicesOf(lines, {SingleLine, JobLine}, 1))

-----------------------------------------------------------------------------
(* Properties of the single rules *)

\* applyRules executes the call of Rule 5 / Rule 2 / Rule 6 on the current entry
Rule5Runs == rulePc = "rule5" /\ rulePc' = "rule6"
Rule2Runs == rulePc = "rule2" /\ rulePc' = "rule3"
Rule6Runs == rulePc = "rule6" /\ rulePc' = "rule7"

\* Rule 5 is about this entry: payType "Call" and no "OT" in the rate
CallWithoutOT(entry) ==
    entry.payType = "Call" /\ ~includes(toUpperCase(entry.laborRate), "OT")

\* the overtime rate by branch prefix, as C11 lists it
OvertimeByPrefix(rate) ==
    LET up == toUpperCase(rate) IN
    IF startsWith(up, "WN MN ") THEN "WN MN TECHOT"
    ELSE IF startsWith(up, "WN ") THEN "WN TECHOT"
    ELSE IF startsWith(up, "SCH_MN") THEN "SCH_MNTECHOT"
    ELSE IF startsWith(up, "SCH_") \/ startsWith(up, "SCH ") THEN "SCH_TECHOT"
    ELSE IF startsWith(up, "MN ") \/ up = "MNTECH" THEN "MN TECHOT"
    ELSE "TechOT"

HasBranchPrefix(rate) ==
    LET up == toUpperCase(rate) IN
    \/ startsWith(up, "WN ") \/ startsWith(up, "SCH_") \/ startsWith(up, "SCH ")
    \/ startsWith(up, "MN ") \/ up = "MNTECH"

\* C11 as stated: when Rule 5 runs on a Call entry whose rate has no "OT",
\* the new rate is the TECHOT rate of the rate's branch prefix, and "TechOT"
\* for anything else.
C11_Rule5PrefixAsStated ==
    [][(Rule5Runs /\ CallWithoutOT(correctedEntry))
          => correctedEntry'.laborRate = OvertimeByPrefix(correctedEntry.laborRate)]_vars

\* C11 amended: when Rule 5 runs on a Call entry whose rate has no "OT", the
\* new rate is the TECHOT rate of the rate's branch prefix; a rate without a
\* branch prefix becomes "TechOT", except that one containing "HELPER" becomes
\* "HELPEROT" ("SCH_HELPEROT" when it starts with "SCH").  The change is logged
\* as one Rule 5 change of laborRate.
C11_Rule5Prefix ==
    [][(Rule5Runs /\ CallWithoutOT(correctedEntry))
          => LET old == correctedEntry.laborRate
                 up  == toUpperCase(old)
                 new == IF ~HasBranchPrefix(old) /\ includes(up, "HELPER")
                        THEN (IF startsWith(up, "SCH") THEN "SCH_HELPEROT"
                              ELSE "HELPEROT")
                        ELSE OvertimeByPrefix(old)
             IN  /\ correctedEntry'.laborRate = new
                 /\ Len(entryChanges') = Len(entryChanges) + 1
                 /\ entryChanges'[Len(entryChanges')].rule = "Rule 5: Call Work Labor Rate"
                 /\ entryChanges'[Len(entryChanges')].field = "laborRate"
                 /\ entryChanges'[Len(entryChanges')].originalValue = old
                 /\ entryChanges'[Len(entryChanges')].correctedValue = new]_vars

\* Rule 5 has just rewritten WN TECH to WN TECHOT
C11_Witness ==
    /\ rulePc = "rule6"
    /\ correctedEntry.payType = "Call"
    /\ correctedEntry.laborRate = "WN TECHOT"
    /\ Len(entryChanges) = 1
    /\ entryChanges[1].rule = "Rule 5: Call Work Labor Rate"
    /\ entryChanges[1].originalValue = "WN TECH"

\* C12: when Rule 5 runs on a Call entry whose rate contains "HELPER" and no
\* "OT", the new rate is the HELPEROT variant with the same branch prefix,
\* never a TECHOT rate.
C12_Rule5Helper ==
    [][(Rule5Runs /\ CallWithoutOT(correctedEntry)
          /\ includes(toUpperCase(correctedEntry.laborRate), "HELPER"))
          => LET up == toUpperCase(correctedEntry.laborRate) IN
             correctedEntry'.laborRate =
                (IF startsWith(up, "WN ") THEN "WN HELPEROT"
                 ELSE IF startsWith(up, "SCH") THEN "SCH_HELPEROT"
                 ELSE IF startsWith(up, "MN ") THEN "MN HELPEROT"
                 ELSE "HELPEROT")]_vars

\* positions of the log whose change was recorded by the rule named ruleId
ChangesOf(log, ruleId) == { k \in 1..Len(log) : log[k].rule = ruleId }

\* C13: an entry with costCode "1COAD" and a payType other than "Regular" is
\* returned with payType "Regular", and the change log holds exactly one
\* change recorded by Rule 7.
C13_OfficeOverride ==
    (FirstCallDone /\ firstInput[1].costCode = "1COAD"
                   /\ firstInput[1].payType # "Regular")
        => /\ correctedData[1].payType = "Regular"
           /\ Cardinality(ChangesOf(changes, "Rule 7: Office Override")) = 1
           /\ \A k \in ChangesOf(changes, "Rule 7: Office Override") :
                 /\ changes[k].field = "payType"
                 /\ changes[k].correctedValue = "Regular"

\* an office entry on a Sunday: Rule 4 and Rule 7 both change the pay type
C13_Witness ==
    /\ FirstCallDone
    /\ firstInput[1].costCode = "1COAD"
    /\ firstInput[1].payType = "Overtime"
    /\ firstInput[1].date = "08/03/2025"
    /\ correctedData[1].payType = "Regular"
    /\ Len(changes) >= 2
    /\ changes[Len(changes)].rule = "Rule 7: Office Override"
    /\ changes[Len(changes)].originalValue = "Double Time"

\* C14: when Rule 2 runs on an entry whose costCode is SERVICE or INSTALL in
\* any letter case, it changes nothing if the laborRate is in the allow-list,
\* which holds "TechOT", "WN TECHOT" and "SCH_TECHOT"; otherwise it sets the
\* laborRate to "Tech" and records exactly one laborRate change.
C14_Rule2AllowList ==
    [][(Rule2Runs /\ toUpperCase(correctedEntry.costCode) \in {"SERVICE", "INSTALL"})
          => LET allowed == SeqToSet(SERVICE_INSTALL_LABOR_RATES)
                 old     == correctedEntry.laborRate
                 n       == Len(entryChanges)
             IN  /\ {"TechOT", "WN TECHOT", "SCH_TECHOT"} \subseteq allowed
                 /\ old \in allowed
                       => /\ correctedEntry' = correctedEntry
                          /\ entryChanges' = entryChanges
                 /\ old \notin allowed
                       => /\ correctedEntry' = [correctedEntry EXCEPT !.laborRate = "Tech"]
                          /\ Len(entryChanges') = n + 1
                          /\ SubSeq(entryChanges', 1, n) = entryChanges
                          /\ entryChanges'[n + 1].field = "laborRate"
                          /\ entryChanges'[n + 1].originalValue = old
                          /\ entryChanges'[n + 1].correctedValue = "Tech"
                          /\ entryChanges'[n + 1].rule =
                                "Rule 2: Service/Install Labor Rate Validation"]_vars

\* Rule 2 has left a Call entry with the rate TechOT on SERVICE alone
C14_Witness ==
    /\ rulePc = "rule3"
    /\ correctedEntry.payType = "Call"
    /\ correctedEntry.laborRate = "TechOT"
    /\ toUpperCase(correctedEntry.costCode) = "SERVICE"
    /\ entryChanges = <<>>

\* the explicit no-bill table, by the upper-cased rate; "" for a rate without
\* an entry
NoBillTable(up) ==
    CASE up = "WN TECH"    -> "WN TECHNB"
      [] up = "WN MN TECH" -> "WN MN TECHNB"
      [] up = "WN PM TECH" -> "WN PM TECHNB"
      [] up = "SCH_TECH"   -> "SCHTECHNB"
      [] up = "SCH_MNTECH" -> "SCH_MNTECHNB"
      [] up = "SCH_PMTECH" -> "SCH_PMTECHNB"
      [] up = "TECH"       -> "TechNB"
      [] up = "MNTECH"     -> "MNTechNB"
      [] up = "PMTECH"     -> "PMTECHNB"
      [] up = "MN PMTECH"  -> "MN PMTECHNB"
      [] OTHER             -> ""

\* C15: when Rule 6 runs on an entry whose description contains "no bill" in
\* any letter case and whose laborRate does not end in "NB", it rewrites the
\* rate by the explicit table and records one change; for a rate that is not
\* in the table it leaves the entry and the change log unchanged.
C15_Rule6NoBill ==
    [][(Rule6Runs /\ includes(toLowerCase(correctedEntry.description), "no bill")
          /\ ~endsWith(correctedEntry.laborRate, "NB"))
          => LET old == correctedEntry.laborRate
                 new == NoBillTable(toUpperCase(old))
                 n   == Len(entryChanges)
             IN  IF new # ""
                 THEN /\ correctedEntry' = [correctedEntry EXCEPT !.laborRate = new]
                      /\ Len(entryChanges') = n + 1
                      /\ SubSeq(entryChanges', 1, n) = entryChanges
                      /\ entryChanges'[n + 1].field = "laborRate"
                      /\ entryChanges'[n + 1].originalValue = old
                      /\ entryChanges'[n + 1].correctedValue = new
                      /\ entryChanges'[n + 1].rule = "Rule 6: No Bill Detection"
                 ELSE /\ correctedEntry' = correctedEntry
                      /\ entryChanges' = entryChanges]_vars

\* Rule 6 has just rewritten SCH_TECH to SCHTECHNB
C15_Witness ==
    /\ rulePc = "rule7"
    /\ includes(toLowerCase(correctedEntry.description), "no bill")
    /\ correctedEntry.laborRate = "SCHTECHNB"
    /\ Len(entryChanges) = 1
    /\ entryChanges[1].rule = "Rule 6: No Bill Detection"
    /\ entryChanges[1].originalValue = "SCH_TECH"

-----------------------------------------------------------------------------
(* Properties of validateEntry and of the change log *)

\* validateEntry has been applied to the one entry of the first call
ValidatedOne == rulePc = "validated" /\ Len(firstInput) = 1

\* C16: for every entry e, validateEntry(e) is empty exactly when
\* applyRules([e]) records no change.
C16_ValidateMirrors ==
    ValidatedOne => ((issues[1] = <<>>) <=> (changes = <<>>))

\* the first call has returned, for an input list of any length
FirstCallReturned == rulePc = "done" /\ run = 1

\* the number in a rule identifier "Rule n: ..."
RuleNo(ruleId) == DigitOf[Char(ruleId, 6)]

\* the change was recorded for this entry
ChangeOfEntry(c, entry) ==
    /\ c.employeeName = entry.employeeName
    /\ c.employeeId = entry.employeeId
    /\ c.date = entry.date

\* cut[k-1]+1 .. cut[k] is the block of entry k, for cut[0] = 0 and
\* cut[n] = Len(log); every change of a block belongs to the entry of the
\* block, and the rule numbers inside a block do not decrease
IsBlockwise(log, entries, cut) ==
    /\ cut[0] = 0
    /\ cut[Len(entries)] = Len(log)
    /\ \A k \in 1..Len(entries) :
          /\ cut[k - 1] <= cut[k]
          /\ \A j \in (cut[k - 1] + 1)..cut[k] :
                /\ ChangeOfEntry(log[j], entries[k])
                /\ j < cut[k] => RuleNo(log[j].rule) <= RuleNo(log[j + 1].rule)

\* C17: the change log returned by applyRules lists the changes of each entry
\* as one contiguous block, the blocks in the input order of the entries, and
\* inside a block the changes in rule order 1 to 7.
C17_ChangeLogOrder ==
    FirstCallReturned
        => \E cut \in [0..Len(firstInput) -> 0..Len(changes)] :
              IsBlockwise(changes, firstInput, cut)

\* a returned log with at least two changes for each of two different entries
C17_Witness ==
    /\ FirstCallReturned
    /\ Len(firstInput) = 2
    /\ firstInput[1].employeeId # firstInput[2].employeeId
    /\ \A k \in 1..2 :
          Cardinality({ j \in 1..Len(changes) :
                          changes[j].employeeId = firstInput[k].employeeId }) >= 2
    /\ \E j \in 1..Len(changes) :
          j > 1 /\ RuleNo(changes[j].rule) < RuleNo(changes[j - 1].rule)

\* C18: applyRules never mutates its input: when applyRules(entries) has
\* returned, every entry of the argument has the field values it had before
\* the call, also when the corrected entry differs from it.
C18_InputNotMutated ==
    FirstCallReturned => employeeData = firstInput

\* a returned call whose corrected entry differs from the input entry
C18_Witness ==
    /\ FirstCallReturned
    /\ Len(firstInput) = 2
    /\ \A k \in 1..2 : correctedData[k] # firstInput[k]
    /\ employeeData = firstInput

\* the rules have run on the current entry; entryChanges is its whole log
EntryDone == rulePc = "push"

\* the changes of a log that a rule number recorded for a field
ChangesFor(log, n, field) ==
    { j \in 1..Len(log) : RuleNo(log[j].rule) = n /\ log[j].field = field }

\* C19: for every entry and every rule, the change log holds at most one
\* change record produced by that rule for each field (payType, laborRate) of
\* that entry, and a rule whose field is already compliant records nothing:
\* every record replaces a value by a different one.
C19_OneChangePerRuleAndField ==
    EntryDone
        => /\ \A n \in 1..7 : \A field \in {"payType", "laborRate"} :
                 Cardinality(ChangesFor(entryChanges, n, field)) <= 1
           /\ \A j \in 1..Len(entryChanges) :
                 /\ entryChanges[j].field \in {"payType", "laborRate"}
                 /\ entryChanges[j].originalValue # entryChanges[j].correctedValue

\* an entry for which one rule recorded a change of each field, and a later
\* rule changed a field once more
C19_Witness ==
    /\ EntryDone
    /\ Cardinality(ChangesFor(entryChanges, 4, "payType")) = 1
    /\ Cardinality(ChangesFor(entryChanges, 4, "laborRate")) = 1
    /\ Len(entryChanges) >= 3
    /\ \E j \in 1..Len(entryChanges) : correctedEntry.laborRate = entryChanges[j].originalValue

-----------------------------------------------------------------------------
(* Properties of the report context *)

\* the loop is about to process line i
AtLine == parsePc = "scan" /\ i <= Len(lines)

\* the line carries a pay-period marker or a report-date marker
IsMarker(line) == line.payPeriod.matched \/ line.reportDate.matched

\* C20: reportDate is set by the first line that matches the report-date
\* pattern and never changes afterwards; payPeriodId is overwritten by every
\* "Pay Period Id:" line; processing either marker leaves the current employee
\* and the entry buffer unchanged.
C20_ReportContext ==
    [][ AtLine =>
          LET line == lineInfo[i] IN
          /\ reportDate # "" => reportDate' = reportDate
          /\ reportDate = "" /\ line.reportDate.matched
                => reportDate' = line.reportDate.text
          /\ line.payPeriod.matched => payPeriodId' = line.payPeriod.id
          /\ IsMarker(line)
                => /\ currentEmployee' = currentEmployee
                   /\ employeeEntries' = employeeEntries ]_vars

-----------------------------------------------------------------------------
(* Properties of the failure behaviour of the parser *)

\* parseEmployeeData has thrown
ParseThrew == parsePc = "threw"

\* C21: the parser never aborts: for every input text parseEmployeeData
\* finishes the scan and returns a list; no line and no malformed multi-line
\* window leads to an error result.
C21_NeverAborts ==
    [](~ParseThrew) /\ <>ParseDone

\* a returned empty list for a document whose last lines start an entry
\* window that the document ends before completing, under an open employee
C21_Witness ==
    /\ ParseDone
    /\ allEntries = <<>>
    /\ Len(lines) >= 4
    /\ lineInfo[Len(lines) - 2].job.matched
    /\ \E k \in 1..(Len(lines) - 3) : lineInfo[k].header.matched
    /\ ~\E k \in 1..Len(lines) : lineInfo[k].employeeTotals \/ lineInfo[k].reportTotals

-----------------------------------------------------------------------------
(* Properties of the change summary *)

\* getSummary has returned
Summarized == rulePc = "summarized"

\* the sum of the counts of a grouping
RECURSIVE SumOfCounts(_)
SumOfCounts(m) ==
    IF DOMAIN m = {} THEN 0
    ELSE LET k == CHOOSE x \in DOMAIN m : TRUE
         IN  m[k] + SumOfCounts([j \in DOMAIN m \ {k} |-> m[j]])

-----------------------------------------------------------------------------
(* Properties of the rules on single entries *)

\* the seven rules in their order, on one entry with an empty log
RulesOnEntry(entry) ==
    applyRule7_OfficeOverride(
      applyRule6_NoBillDetection(
        applyRule5_CallWork(
          applyRule4_SundayPremium(
            applyRule3_PMRates(
              applyRule2_ServiceInstallRates(
                applyRule1_TechUnapplied(RuleState(entry, <<>>))))))))

\* a valid date that is not a Sunday
WeekdayDate == "11/04/2024"

\* a record with the date replaced
WithDate(r, date) == [r EXCEPT !.date = date]

\* C25: for an entry whose date cannot be parsed as MM/DD/YYYY, applyRules
\* does not fail, Rule 4 records no change for it, and Rules 1, 2, 3, 5, 6 and
\* 7 are applied to it exactly as to the same entry with a valid non-Sunday
\* date.
C25_UnparseableDate ==
    FirstCallDone /\ ~momentParse(firstInput[1].date).valid
        => LET e    == firstInput[1]
               twin == RulesOnEntry(WithDate(e, WeekdayDate))
           IN  /\ Len(correctedData) = 1
               /\ \A k \in 1..Len(changes) : RuleNo(changes[k].rule) # 4
               /\ correctedData[1] = WithDate(twin.entry, e.date)
               /\ changes = [k \in 1..Len(twin.changes)
                               |-> WithDate(twin.changes[k], e.date)]

\* an entry with an unparseable date that Rules 5 and 7 rewrite
C25_Witness ==
    /\ FirstCallDone
    /\ ~momentParse(firstInput[1].date).valid
    /\ {5, 7} \subseteq { RuleNo(changes[k].rule) : k \in 1..Len(changes) }

\* the positions of a log that record a change of a field, in log order
RECURSIVE ChangesOfField(_, _)
ChangesOfField(log, field) ==
    IF log = <<>> THEN <<>>
    ELSE LET rest == ChangesOfField(SubSeq(log, 1, Len(log) - 1), field)
         IN  IF log[Len(log)].field = field
             THEN Append(rest, log[Len(log)]) ELSE rest

\* the records of a field lead from one value to another
Replays(recs, from, to) ==
    IF recs = <<>> THEN from = to
    ELSE /\ recs[1].originalValue = from
         /\ \A k \in 2..Len(recs) :
               recs[k].originalValue = recs[k - 1].correctedValue
         /\ recs[Len(recs)].correctedValue = to

\* C28: the change log replays to the corrected entry: for each of the fields
\* payType and laborRate the first change has the input entry's value as
\* originalValue, each later change starts from the correctedValue of the
\* change before it, and the last correctedValue is the corrected entry's
\* value; a field with no change record has the same value in both.
C28_LogReplays ==
    EntryDone
        => /\ Replays(ChangesOfField(entryChanges, "payType"),
                      employeeData[entryIdx].payType, correctedEntry.payType)
           /\ Replays(ChangesOfField(entryChanges, "laborRate"),
                      employeeData[entryIdx].laborRate, correctedEntry.laborRate)

\* an entry whose labor rate and whose pay type were both changed twice
C28_Witness ==
    /\ EntryDone
    /\ run = 1
    /\ Len(ChangesOfField(entryChanges, "laborRate")) >= 2
    /\ Len(ChangesOfField(entryChanges, "payType")) >= 2

\* the rule numbers that occur in a log
RuleNosOf(log) == { RuleNo(log[k].rule) : k \in 1..Len(log) }

\* C29: every change record in the change log returned by applyRules has a
\* correctedValue different from its originalValue.
C29_NoVacuousChange ==
    FirstCallReturned
        => \A k \in 1..Len(changes) :
              changes[k].correctedValue # changes[k].originalValue

\* a returned log of two entries with records of Rule 4, for both fields, and
\* of Rule 5
C29_Witness ==
    /\ FirstCallReturned
    /\ Len(firstInput) = 2
    /\ Len(changes) >= 3
    /\ {4, 5} \subseteq RuleNosOf(changes)

\* an entry with the two fields the rules may rewrite taken from another
WithRuleFields(entry, from) ==
    [entry EXCEPT !.payType = from.payType, !.laborRate = from.laborRate]

\* C30: the rule engine rewrites only payType and laborRate: correctedData has
\* the length of the input, and correctedData[i] equals the i-th input entry
\* in every field other than payType and laborRate.
C30_OnlyPayTypeAndRate ==
    FirstCallReturned
        => /\ Len(correctedData) = Len(firstInput)
           /\ \A k \in 1..Len(firstInput) :
                 WithRuleFields(correctedData[k], firstInput[k]) = firstInput[k]

\* a returned call on two entries, both rewritten, one of them by Rule 6
C30_Witness ==
    /\ FirstCallReturned
    /\ Len(firstInput) = 2
    /\ \A k \in 1..2 : correctedData[k].payType # firstInput[k].payType
    /\ \E k \in 1..2 : correctedData[k].laborRate # firstInput[k].laborRate
    /\ 6 \in RuleNosOf(changes)

-----------------------------------------------------------------------------
(* Properties of the four-line window *)

\* the loop is at a job-code line, under an open employee
AtJobLine ==
    /\ AtLine
    /\ lineInfo[i].job.matched
    /\ ~lineInfo[i].header.matched
    /\ currentEmployee # NoEmployee

\* lines k .. k+3 are a four-line entry as the spec has it: a job-code line,
\* a line that is solely a date, a line that is solely a positive number, a
\* line with the " - " separator
IsValidWindow(info, k) ==
    /\ k + 3 <= Len(info)
    /\ info[k].job.matched
    /\ info[k + 1].isDate
    /\ info[k + 2].hours.matched
    /\ parseFloat(info[k + 2].hours.text) > 0
    /\ info[k + 3].hasDash

\* C26: when the window starting at a job-code line is not a valid four-line
\* entry (line 2 is not solely a date, line 3 is not solely a number, line 4
\* has no " - " separator, or the hours are not positive), the extractor
\* produces no entry and the scan advances by that one line only.
C26_RejectedWindow ==
    [][ AtJobLine /\ ~IsValidWindow(lineInfo, i)
          => /\ accepted' = accepted
             /\ employeeEntries' = employeeEntries
             /\ i' = i + 1 ]_vars

\* an employee header, an Employee Totals line or a Report Totals line
IsBoundary(line) ==
    line.header.matched \/ line.employeeTotals \/ line.reportTotals

\* C27: boundary lines are never swallowed by an entry window: the four-line
\* extractor never consumes an employee-header line, an "Employee Totals" line
\* or a "Report Totals" line as the details line or as a trailing noise line
\* of a time entry, so every such line gets an iteration of its own.
C27_BoundaryNotSwallowed ==
    [][ AtLine => \A k \in (i + 1)..(i' - 1) : ~IsBoundary(lineInfo[k]) ]_vars

-----------------------------------------------------------------------------
(* Properties of the processing pipeline *)

Responded(r) == req[r].pc = "responded"

ExtractionFailure == errorResponse(422, "Failed to extract text from PDF")

IsSuccess(out) == "success" \in DOMAIN out /\ out.success /\ out.status = 200

\* C22: a request whose file cannot be read ends with the extraction-failure
\* result, which no other request gets and which carries no data, and neither
\* parseEmployeeData nor applyRules has run for it; a request whose text parses
\* to zero entries ends with a success result of zero entries and zero changes.
C22_ErrorPropagation ==
    \A r \in Requests :
        Responded(r) =>
            LET file == req[r].file
                out  == req[r].response
            IN  /\ (file.present /\ ~file.readable) =>
                       /\ out = ExtractionFailure
                       /\ "data" \notin DOMAIN out
                       /\ ~req[r].ranParse
                       /\ ~req[r].ranRules
                /\ out = ExtractionFailure => (file.present /\ ~file.readable)
                /\ (req[r].ranParse /\ ~req[r].parseFailed /\ req[r].employeeData = <<>>) =>
                       /\ IsSuccess(out)
                       /\ out.originalCount = 0
                       /\ out.correctedCount = 0
                       /\ out.changesCount = 0
                       /\ out.data.corrected = <<>>
                       /\ out.data.changes = <<>>

\* one request has ended with the extraction failure, another one with the
\* success result of a text without entries
C22_Witness ==
    \E r \in Requests, q \in Requests :
        /\ Responded(r) /\ req[r].file = CorruptFile
        /\ req[r].response = ExtractionFailure
        /\ Responded(q) /\ req[q].file = ReadableFile(NoEntriesText)
        /\ IsSuccess(req[q].response)
        /\ req[q].response.originalCount = 0

\* C23: the result of a request depends on its file alone: two requests that
\* run concurrently, interleaved at the awaits of the handler, each get the
\* result of the request that was served alone with the same file.
C23_Independence ==
    \A r \in Requests, q \in Requests :
        (Responded(r) /\ Responded(q) /\ req[r].file = req[q].file) =>
            req[r].response = req[q].response

\* two requests with different documents have overlapped, and each has got
\* entries and a change log
C23_Witness ==
    /\ \A r \in Concurrent :
          /\ Responded(r)
          /\ req[r].overlapped
          /\ IsSuccess(req[r].response)
          /\ req[r].response.originalCount > 0
          /\ req[r].response.changesCount > 0
    /\ req[3].file # req[4].file
    /\ req[3].response # req[4].response

====
